---- MODULE Spec2Model ----
(***************************************************************************)
(* A model of rapid-responder's ResponseBuilder: the builder's             *)
(* configuration and status, the bounded stream-to-buffer consumer         *)
(* (#handleStreamResponse) with its four racing signals, and send's        *)
(* continuation that shapes the envelope or re-raises the failure.         *)
(*                                                                         *)
(* Encoding of JavaScript values:                                          *)
(*   - an option that may be absent is [has |-> BOOLEAN, val |-> Int];     *)
(*   - an absent string option (protocol, contentType) is "", which the    *)
(*     code treats exactly like undefined (both are falsy);                *)
(*   - a byte buffer is a sequence of bytes, a string a sequence of code   *)
(*     points;                                                             *)
(*   - an error object is a record of the fields the code reads or sets.   *)
(***************************************************************************)
EXTENDS Integers, Sequences, FiniteSets, TLC

\* ------------------------------------------------------------------ bounds

\* Signals (error, data, end) the source emits during one consume operation.
MaxSignals == 4

\* ------------------------------------------------------- program constants

DEFAULT_STREAM_TIMEOUT == 30000

DEFAULT_MAX_STREAM_SIZE == 52428800

PROTOCOLS == {"http", "ipc", "socket"}

STATUS_CODES ==
  [ ok |-> 200, created |-> 201, accepted |-> 202, noContent |-> 204,
    badRequest |-> 400, unauthorized |-> 401, forbidden |-> 403,
    notFound |-> 404, methodNotAllowed |-> 405, conflict |-> 409,
    unprocessableEntity |-> 422, tooManyRequests |-> 429,
    internalServerError |-> 500, notImplemented |-> 501, badGateway |-> 502,
    serviceUnavailable |-> 503, gatewayTimeout |-> 504 ]

\* ---------------------------------------------------------------- values

\* A JavaScript value is a record tagged by k; v holds what the kind carries.
Undefined == [k |-> "undefined"]

\* The integer n as a number.
Num(n) == [k |-> "number", v |-> n]

\* The number n + 0.5.
Half(n) == [k |-> "number", v |-> n, half |-> TRUE]

\* Number.isInteger(val) for a number.
IsInteger(val) == "half" \notin DOMAIN val

\* ------------------------------------------------------------ error values

NoContext == [has |-> FALSE, protocol |-> "", statusCode |-> 0]

\* An error object: id is its identity, isError says whether it is an
\* instance of Error, original is the id of the value a wrapper carries.
ErrObj(id, name, isError, code) ==
  [ id |-> id, name |-> name, isError |-> isError, code |-> code,
    timeout |-> 0, limit |-> 0, actual |-> 0, statusCode |-> Undefined,
    original |-> "", context |-> NoContext ]

NoError == ErrObj("", "", FALSE, "")

StreamTimeoutError(timeout) ==
  [ ErrObj("timeout", "StreamTimeoutError", TRUE, "STREAM_TIMEOUT")
      EXCEPT !.timeout = timeout ]

StreamSizeLimitError(limit, actual) ==
  [ ErrObj("sizeLimit", "StreamSizeLimitError", TRUE, "STREAM_SIZE_LIMIT")
      EXCEPT !.limit = limit, !.actual = actual ]

InvalidStatusCodeError(code) ==
  [ ErrObj("invalidStatus", "InvalidStatusCodeError", TRUE, "INVALID_STATUS_CODE")
      EXCEPT !.statusCode = code ]

\* new Error('Stream error') with .original = the emitted value.
StreamErrorWrapper(error) ==
  [ ErrObj("wrapper", "Error", TRUE, "") EXCEPT !.original = error.id ]

\* What a source may emit with 'error': Error instances with and without a
\* code, a value that is no Error (a string), and a nullish value.
E_ENOENT == ErrObj("E_ENOENT", "Error", TRUE, "ENOENT")

E_EACCES == ErrObj("E_EACCES", "Error", TRUE, "EACCES")

E_PLAIN == ErrObj("E_PLAIN", "Error", TRUE, "")

V_STRING == ErrObj("V_STRING", "", FALSE, "")

V_NULL == ErrObj("V_NULL", "", FALSE, "")

IsNullish(error) == error.id = "V_NULL"

ErrorValues == {E_ENOENT, E_EACCES, E_PLAIN, V_STRING, V_NULL}

\* The errors a configured errorHandler hook produces.
E_CUSTOM == ErrObj("E_CUSTOM", "Error", TRUE, "")

E_HOOK_THROWN == ErrObj("E_HOOK_THROWN", "Error", TRUE, "")

\* The errorHandler option: absent, or a function that returns nothing,
\* returns a replacement error, or throws.
HookKinds == {"none", "returnsNothing", "returnsReplacement", "throws"}

\* A hook that throws what status(999) throws.
LifeHookKinds == {"none", "returnsReplacement", "throwsInvalidStatus"}

\* ----------------------------------------------------------------- sources

\* A source stream as the code inspects it: its Symbol.toStringTag, the zlib
\* class it is an instance of, its constructor's name, whether it has a read
\* function, and whether it is an EventEmitter (with removeAllListeners).
Source(tag, zlib, ctor, hasRead, emitter) ==
  [ tag |-> tag, zlib |-> zlib, ctor |-> ctor, hasRead |-> hasRead,
    emitter |-> emitter ]

SrcGzip == Source("", "Gzip", "Gzip", TRUE, TRUE)

SrcDeflate == Source("", "Deflate", "Deflate", TRUE, TRUE)

SrcUnzip == Source("", "Unzip", "Unzip", TRUE, TRUE)

SrcReadStream == Source("", "", "ReadStream", TRUE, TRUE)

SrcReadable == Source("", "", "Readable", TRUE, TRUE)

SrcEmitter == Source("", "", "EventEmitter", FALSE, TRUE)

\* A duck-typed object: pipe, on and removeListener only.
SrcPlain == Source("", "", "Object", FALSE, FALSE)

AllSources ==
  {SrcGzip, SrcDeflate, SrcUnzip, SrcReadStream, SrcReadable, SrcEmitter, SrcPlain}

streamTypeMap ==
  << [mime |-> "application/gzip", names |-> <<"Gzip", "Gunzip">>],
     [mime |-> "application/deflate",
      names |-> <<"Deflate", "DeflateRaw", "Inflate", "InflateRaw">>],
     [mime |-> "application/zip", names |-> <<"Unzip">>],
     [mime |-> "application/octet-stream", names |-> <<"ReadStream", "FileReadStream">>],
     [mime |-> "application/stream",
      names |-> <<"EventEmitter", "Readable", "Transform", "PassThrough">>] >>

Includes(seq, x) == \E i \in 1..Len(seq) : seq[i] = x

MatchesTag(entry, stream) == Includes(entry.names, stream.tag)

\* instanceof Zlib[className], constructor name, or the Readable duck test.
MatchesClass(entry, stream) ==
  \E i \in 1..Len(entry.names) :
    \/ (stream.zlib # "" /\ stream.zlib = entry.names[i])
    \/ stream.ctor = entry.names[i]
    \/ (entry.names[i] = "Readable" /\ stream.hasRead)

\* Index of the first entry of streamTypeMap matching by tag; 0 if none.
FirstByTag(stream) ==
  IF \E i \in 1..Len(streamTypeMap) : MatchesTag(streamTypeMap[i], stream)
    THEN CHOOSE i \in 1..Len(streamTypeMap) :
           /\ MatchesTag(streamTypeMap[i], stream)
           /\ \A j \in 1..(i - 1) : ~MatchesTag(streamTypeMap[j], stream)
    ELSE 0

FirstByClass(stream) ==
  IF \E i \in 1..Len(streamTypeMap) : MatchesClass(streamTypeMap[i], stream)
    THEN CHOOSE i \in 1..Len(streamTypeMap) :
           /\ MatchesClass(streamTypeMap[i], stream)
           /\ \A j \in 1..(i - 1) : ~MatchesClass(streamTypeMap[j], stream)
    ELSE 0

getStreamType(stream) ==
  IF stream.tag # "" /\ FirstByTag(stream) # 0
    THEN streamTypeMap[FirstByTag(stream)].mime
  ELSE IF FirstByClass(stream) # 0
    THEN streamTypeMap[FirstByClass(stream)].mime
  ELSE "application/octet-stream"

\* ----------------------------------------------------------------- builder

NoOpt == [has |-> FALSE, val |-> 0]

Opt(n) == [has |-> TRUE, val |-> n]

\* JavaScript's  option || default  for a numeric option.
OrDefault(opt, default) == IF opt.has /\ opt.val # 0 THEN opt.val ELSE default

\* An object of string entries (headers) is a function from its keys.
NoHeaders == [n \in {} |-> ""]

\* JavaScript's {...a, ...b}: the entries of b win.
Spread(a, b) == b @@ a

\* The protocol option when the caller gives none (undefined); "" is the
\* empty string.  Both are falsy.
NoProtocol == "(undefined)"

Options(protocol, headers, timeout, size, hook, contentType) ==
  [ protocol |-> protocol, headers |-> headers, streamTimeout |-> timeout,
    maxStreamSize |-> size, errorHandler |-> hook, contentType |-> contentType ]

\* A variant that takes the protocol as given.
Construct_AnyProtocol(options) ==
  LET given == options.protocol \notin {NoProtocol, ""}
      obj == [ protocol |-> IF given THEN options.protocol ELSE "http",
               statusCode |-> STATUS_CODES.ok,
               headers |-> Spread(NoHeaders, options.headers),
               streamTimeout |-> OrDefault(options.streamTimeout, DEFAULT_STREAM_TIMEOUT),
               maxStreamSize |-> OrDefault(options.maxStreamSize, DEFAULT_MAX_STREAM_SIZE),
               customErrorHandler |-> options.errorHandler,
               contentTypeOverride |-> options.contentType ]
  IN  [ threw |-> obj.streamTimeout <= 0 \/ obj.maxStreamSize <= 0,
        obj |-> obj ]

\* new ResponseBuilder(options): threw says whether the constructor threw.
Construct(options) ==
  LET given == options.protocol \notin {NoProtocol, ""}
      obj == [ protocol |-> IF given THEN options.protocol ELSE "http",
               statusCode |-> STATUS_CODES.ok,
               headers |-> Spread(NoHeaders, options.headers),
               streamTimeout |-> OrDefault(options.streamTimeout, DEFAULT_STREAM_TIMEOUT),
               maxStreamSize |-> OrDefault(options.maxStreamSize, DEFAULT_MAX_STREAM_SIZE),
               customErrorHandler |-> options.errorHandler,
               contentTypeOverride |-> options.contentType ]
  IN  [ threw |-> \/ (given /\ options.protocol \notin PROTOCOLS)
                  \/ obj.streamTimeout <= 0
                  \/ obj.maxStreamSize <= 0,
        obj |-> obj ]

\* typeof code === 'number' && Number.isInteger(code) && 100 <= code <= 599
isValidStatusCode(code) ==
  /\ code.k = "number"
  /\ IsInteger(code)
  /\ code.v >= 100
  /\ code.v <= 599

\* A variant that stores every number without validating it.
status_Unchecked(b, code) ==
  IF code.k # "number"
    THEN [threw |-> TRUE, error |-> InvalidStatusCodeError(code), builder |-> b]
    ELSE [threw |-> FALSE, error |-> NoError,
          builder |-> [b EXCEPT !.statusCode = code.v]]

\* A variant that assigns a number before it validates it.
status_AssignsFirst(b, code) ==
  IF ~isValidStatusCode(code)
    THEN [ threw |-> TRUE, error |-> InvalidStatusCodeError(code),
           builder |-> IF code.k = "number" THEN [b EXCEPT !.statusCode = code.v]
                       ELSE b ]
    ELSE [threw |-> FALSE, error |-> NoError,
          builder |-> [b EXCEPT !.statusCode = code.v]]

\* builder.status(code): the builder afterwards and whether it threw.
status(b, code) ==
  IF ~isValidStatusCode(code)
    THEN [threw |-> TRUE, error |-> InvalidStatusCodeError(code), builder |-> b]
    ELSE [threw |-> FALSE, error |-> NoError,
          builder |-> [b EXCEPT !.statusCode = code.v]]

\* builder.header(name, value) for a string name and a string value.
header(b, name, value) == [b EXCEPT !.headers = (name :> value) @@ @]

\* ------------------------------------------------------- JavaScript values

\* A Buffer of the given bytes.
Buf(bytes) == [k |-> "buffer", v |-> bytes]

\* A string of the given code points.
Str(points) == [k |-> "string", v |-> points]

\* obj[key] of an object modelled as a record: undefined when absent.
Get(obj, key) == IF key \in DOMAIN obj THEN obj[key] ELSE Undefined

\* JavaScript truthiness of a value that is undefined or a number.
Truthy(val) == val.k = "number" /\ val.v # 0

\* UTF-8 encoding of one code point below 2048.
Utf8(point) ==
  IF point < 128 THEN <<point>>
  ELSE <<192 + (point \div 64), 128 + (point % 64)>>

RECURSIVE Utf8Seq(_)
Utf8Seq(points) ==
  IF points = <<>> THEN <<>> ELSE Utf8(Head(points)) \o Utf8Seq(Tail(points))

\* Buffer.isBuffer(chunk) ? chunk : Buffer.from(chunk)
ToBuffer(chunk) == IF chunk.k = "buffer" THEN chunk ELSE Buf(Utf8Seq(chunk.v))

RECURSIVE BufferConcat(_)
\* Buffer.concat(chunks)
BufferConcat(chunks) ==
  IF chunks = <<>> THEN Buf(<<>>)
  ELSE Buf(Head(chunks).v \o BufferConcat(Tail(chunks)).v)

\* ------------------------------------------- the consume operation's state

NoResult == [body |-> Buf(<<>>), type |-> "", size |-> Undefined]

\* The promise #handleStreamResponse returns.
PendingPromise == [state |-> "pending", value |-> NoResult, error |-> NoError]

\* One consume operation: the closure of #handleStreamResponse (payload,
\* isSettled, the timer), the consumer's listeners on the source, and what it
\* did so far: calls of destroyStream, of the errorHandler hook, of
\* resolve/reject, callbacks queued with setImmediate, and exceptions that
\* escaped a listener into the source's emit.
NewOp ==
  [ phase |-> "idle", isSettled |-> FALSE, chunks |-> <<>>, totalBytes |-> 0,
    timer |-> "none", listeners |-> {}, destroyCalls |-> 0, hookCalls |-> 0,
    immediates |-> <<>>, promise |-> PendingPromise, settleCalls |-> 0,
    escaped |-> 0 ]

\* resolve(value): only the first resolve or reject settles a promise.
Resolve(o, value) ==
  [ o EXCEPT !.settleCalls = @ + 1,
             !.promise = IF @.state = "pending"
                           THEN [state |-> "fulfilled", value |-> value, error |-> NoError]
                           ELSE @ ]

Reject(o, error) ==
  [ o EXCEPT !.settleCalls = @ + 1,
             !.promise = IF @.state = "pending"
                           THEN [state |-> "rejected", value |-> NoResult, error |-> error]
                           ELSE @ ]

clearTimeout(o) == [o EXCEPT !.timer = IF @ = "armed" THEN "cleared" ELSE @]

\* A variant that maps no handler name to the event 'end'.
cleanupStreamListeners_SkipsEnd(o, events) ==
  [o EXCEPT !.listeners = @ \ (events \ {"end"})]

\* #cleanupStreamListeners(stream, handlers): events names the handlers given.
cleanupStreamListeners(o, events) == [o EXCEPT !.listeners = @ \ events]

\* ResponseHelper.destroyStream(stream, true) as the operation sees it: the
\* call is counted, and removeAllListeners('error') drops the consumer's
\* error listener when the stream has that function.  It never throws.
destroyStream(o, stream) ==
  [ o EXCEPT !.destroyCalls = @ + 1,
             !.listeners = IF stream.emitter THEN @ \ {"error"} ELSE @ ]

\* A handler leaves the operation and the builder in a new state.
Step(o, b) == [op |-> o, builder |-> b]

\* Mutant of timeoutHandler: the timeout is routed through the errorHandler
\* hook like a source error.
timeoutHandler_ViaHook(o, b, stream) ==
  IF o.isSettled THEN Step(o, b)
  ELSE
    LET o1 == [o EXCEPT !.isSettled = TRUE]
        o2 == cleanupStreamListeners(o1, {"error", "data", "end"})
        o3 == destroyStream(o2, stream)
    IN  IF b.customErrorHandler = "returnsReplacement"
          THEN Step(Reject([o3 EXCEPT !.hookCalls = @ + 1], E_CUSTOM), b)
          ELSE Step(Reject(o3, StreamTimeoutError(b.streamTimeout)), b)

\* The setTimeout callback.
timeoutHandler(o, b, stream) ==
  IF o.isSettled THEN Step(o, b)
  ELSE
    LET o1 == [o EXCEPT !.isSettled = TRUE]
        o2 == cleanupStreamListeners(o1, {"error", "data", "end"})
        o3 == destroyStream(o2, stream)
    IN  Step(Reject(o3, StreamTimeoutError(b.streamTimeout)), b)

\* A variant that knows ENOENT only.
ErrorStatus_OnlyNotFound(error) ==
  IF error.code = "ENOENT" THEN STATUS_CODES.notFound
  ELSE STATUS_CODES.internalServerError

\* The status the error's code selects.
ErrorStatus(error) ==
  IF error.code = "ENOENT" THEN STATUS_CODES.notFound
  ELSE IF error.code = "EACCES" THEN STATUS_CODES.forbidden
  ELSE STATUS_CODES.internalServerError

\* Mutant of errorHandler: the hook's replacement is dropped and a value that
\* is no Error is rejected as it came.
errorHandler_IgnoresHook(o, b, stream, error) ==
  IF o.isSettled THEN Step(o, b)
  ELSE
    LET o1 == [o EXCEPT !.isSettled = TRUE]
        o2 == clearTimeout(o1)
        o3 == cleanupStreamListeners(o2, {"data", "end"})
        o4 == destroyStream(o3, stream)
    IN  Step(Reject(o4, error), status(b, Num(ErrorStatus(error))).builder)

\* A variant that records the status class before it calls the hook.
errorHandler_StatusFirst(o, b, stream, error) ==
  IF o.isSettled THEN Step(o, b)
  ELSE
    LET o1 == [o EXCEPT !.isSettled = TRUE]
        o2 == clearTimeout(o1)
        o3 == cleanupStreamListeners(o2, {"data", "end"})
        o4 == destroyStream(o3, stream)
        hooked == b.customErrorHandler # "none"
        o5 == IF hooked THEN [o4 EXCEPT !.hookCalls = @ + 1] ELSE o4
        b1 == IF IsNullish(error) THEN b ELSE status(b, Num(ErrorStatus(error))).builder
    IN  IF IsNullish(error) THEN Step([o4 EXCEPT !.escaped = @ + 1], b)
        ELSE IF b.customErrorHandler = "returnsReplacement"
          THEN Step(Reject(o5, E_CUSTOM), b1)
        ELSE IF b.customErrorHandler = "throws"
          THEN Step(Reject(o5, E_HOOK_THROWN), b1)
        ELSE IF b.customErrorHandler = "throwsInvalidStatus"
          THEN Step(Reject(o5, InvalidStatusCodeError(Num(999))), b1)
        ELSE Step(Reject(o5, IF error.isError THEN error ELSE StreamErrorWrapper(error)),
                  b1)

\* The 'error' listener.
errorHandler(o, b, stream, error) ==
  IF o.isSettled THEN Step(o, b)
  ELSE
    LET o1 == [o EXCEPT !.isSettled = TRUE]
        o2 == clearTimeout(o1)
        o3 == cleanupStreamListeners(o2, {"data", "end"})
        o4 == destroyStream(o3, stream)
        hooked == b.customErrorHandler # "none"
        o5 == IF hooked THEN [o4 EXCEPT !.hookCalls = @ + 1] ELSE o4
    IN  IF b.customErrorHandler = "returnsReplacement"
          THEN Step(Reject(o5, E_CUSTOM), b)
        ELSE IF b.customErrorHandler = "throws"
          THEN Step(Reject(o5, E_HOOK_THROWN), b)
        ELSE IF b.customErrorHandler = "throwsInvalidStatus"
          THEN Step(Reject(o5, InvalidStatusCodeError(Num(999))), b)
        ELSE IF IsNullish(error)
          \* error.code of null or undefined: a TypeError leaves the listener.
          THEN Step([o5 EXCEPT !.escaped = @ + 1], b)
        ELSE
          LET b1 == status(b, Num(ErrorStatus(error))).builder
              finalError == IF error.isError THEN error ELSE StreamErrorWrapper(error)
          IN  Step(Reject(o5, finalError), b1)

\* The size-limit branch of dataHandler.
SizeLimitExit(o1, b, stream) ==
  LET o2 == [o1 EXCEPT !.isSettled = TRUE]
      o3 == clearTimeout(o2)
      o4 == cleanupStreamListeners(o3, {"error", "end"})
      o5 == destroyStream(o4, stream)
      sizeError == StreamSizeLimitError(b.maxStreamSize, o1.totalBytes)
  IN  Step([o5 EXCEPT !.immediates = Append(@, sizeError)], b)

\* Mutant of dataHandler: the isSettled guard is missing.
dataHandler_Unguarded(o, b, stream, chunk) ==
  LET buffer == ToBuffer(chunk)
      o1 == [o EXCEPT !.totalBytes = @ + Len(buffer.v)]
  IN  IF o1.totalBytes > b.maxStreamSize
        THEN SizeLimitExit(o1, b, stream)
        ELSE Step([o1 EXCEPT !.chunks = Append(@, buffer)], b)

\* Mutant of dataHandler: the limit is compared with >= instead of >.
dataHandler_AtLeast(o, b, stream, chunk) ==
  IF o.isSettled THEN Step(o, b)
  ELSE
    LET buffer == ToBuffer(chunk)
        o1 == [o EXCEPT !.totalBytes = @ + Len(buffer.v)]
    IN  IF o1.totalBytes >= b.maxStreamSize
          THEN SizeLimitExit(o1, b, stream)
          ELSE Step([o1 EXCEPT !.chunks = Append(@, buffer)], b)

\* Mutant of dataHandler: the chunk's own length is counted (characters of a
\* string) instead of the buffer's.
dataHandler_CountsChars(o, b, stream, chunk) ==
  IF o.isSettled THEN Step(o, b)
  ELSE
    LET buffer == ToBuffer(chunk)
        o1 == [o EXCEPT !.totalBytes = @ + Len(chunk.v)]
    IN  IF o1.totalBytes > b.maxStreamSize
          THEN SizeLimitExit(o1, b, stream)
          ELSE Step([o1 EXCEPT !.chunks = Append(@, buffer)], b)

\* A variant that appends the chunk before it compares the total.
dataHandler_AppendsFirst(o, b, stream, chunk) ==
  IF o.isSettled THEN Step(o, b)
  ELSE
    LET buffer == ToBuffer(chunk)
        o1 == [o EXCEPT !.totalBytes = @ + Len(buffer.v), !.chunks = Append(@, buffer)]
    IN  IF o1.totalBytes > b.maxStreamSize
          THEN SizeLimitExit(o1, b, stream)
          ELSE Step(o1, b)

\* The 'data' listener.
dataHandler(o, b, stream, chunk) ==
  IF o.isSettled THEN Step(o, b)
  ELSE
    LET buffer == ToBuffer(chunk)
        o1 == [o EXCEPT !.totalBytes = @ + Len(buffer.v)]
    IN  IF o1.totalBytes > b.maxStreamSize
          THEN SizeLimitExit(o1, b, stream)
          ELSE Step([o1 EXCEPT !.chunks = Append(@, buffer)], b)

\* Mutant of endHandler: the isSettled guard is missing.
endHandler_Unguarded(o, b, stream) ==
  LET o1 == [o EXCEPT !.isSettled = TRUE]
      o2 == clearTimeout(o1)
      o3 == cleanupStreamListeners(o2, {"error", "data"})
      o4 == destroyStream(o3, stream)
  IN  Step(Resolve(o4, [ body |-> BufferConcat(o.chunks),
                         type |-> "application/octet-stream",
                         size |-> Num(o.totalBytes) ]), b)

\* Mutant of endHandler: the type is taken from getStreamType.
endHandler_TypeFromSource(o, b, stream) ==
  IF o.isSettled THEN Step(o, b)
  ELSE
    LET o1 == [o EXCEPT !.isSettled = TRUE]
        o2 == clearTimeout(o1)
        o3 == cleanupStreamListeners(o2, {"error", "data"})
        o4 == destroyStream(o3, stream)
    IN  Step(Resolve(o4, [ body |-> BufferConcat(o.chunks),
                           type |-> getStreamType(stream),
                           size |-> Num(o.totalBytes) ]), b)

\* The 'end' listener.
\* A variant that ignores end once the builder's status reports an error.
endHandler_UnlessErrorStatus(o, b, stream) ==
  IF o.isSettled \/ b.statusCode >= 400 THEN Step(o, b)
  ELSE
    LET o1 == [o EXCEPT !.isSettled = TRUE]
        o2 == clearTimeout(o1)
        o3 == cleanupStreamListeners(o2, {"error", "data"})
        o4 == destroyStream(o3, stream)
    IN  Step(Resolve(o4, [ body |-> BufferConcat(o.chunks),
                           type |-> "application/octet-stream",
                           size |-> Num(o.totalBytes) ]), b)

endHandler(o, b, stream) ==
  IF o.isSettled THEN Step(o, b)
  ELSE
    LET o1 == [o EXCEPT !.isSettled = TRUE]
        o2 == clearTimeout(o1)
        o3 == cleanupStreamListeners(o2, {"error", "data"})
        o4 == destroyStream(o3, stream)
    IN  Step(Resolve(o4, [ body |-> BufferConcat(o.chunks),
                           type |-> "application/octet-stream",
                           size |-> Num(o.totalBytes) ]), b)

\* #handleStreamResponse(stream): the promise is created, the timer armed and
\* the three listeners attached.
handleStreamResponse(o) ==
  [o EXCEPT !.phase = "active", !.timer = "armed",
            !.listeners = {"error", "data", "end"}]

\* ---------------------------------------------------- more kinds of value

Null == [k |-> "null"]

Bool(b) == [k |-> "boolean", v |-> b]

Arr(elements) == [k |-> "array", v |-> elements]

\* A plain object: a record of its own properties.
Obj(props) == [k |-> "object", v |-> props]

\* An instance of Error: name is what body.name reads (own or inherited), own
\* the record of its own properties as Object.getOwnPropertyNames lists them.
ErrorValue(name, own) == [k |-> "error", name |-> name, v |-> own]

\* body.message and body.stack: own, or inherited from Error.prototype.
ErrorMessage(body) == IF "message" \in DOMAIN body.v THEN body.v.message ELSE Str(<<>>)

ErrorStack(body) == Get(body.v, "stack")

\* ------------------------------------------------------------------ strings

\* White space as String.prototype.trim and the regular expression class \s
\* see it, among the code points below 256.
WhiteSpace == {9, 10, 11, 12, 13, 32, 160}

RECURSIVE TrimStart(_)
TrimStart(s) ==
  IF s # <<>> /\ Head(s) \in WhiteSpace THEN TrimStart(Tail(s)) ELSE s

RECURSIVE TrimEnd(_)
TrimEnd(s) ==
  IF s # <<>> /\ s[Len(s)] \in WhiteSpace THEN TrimEnd(SubSeq(s, 1, Len(s) - 1)) ELSE s

\* String.prototype.trim on the code points of a string.
Trim(s) == TrimEnd(TrimStart(s))

\* The lower-case form of an ASCII code point.
Lower(c) == IF c >= 65 /\ c <= 90 THEN c + 32 ELSE c

StartsWith(s, prefix) ==
  Len(s) >= Len(prefix) /\ SubSeq(s, 1, Len(prefix)) = prefix

EndsWith(s, suffix) ==
  Len(s) >= Len(suffix) /\ SubSeq(s, Len(s) - Len(suffix) + 1, Len(s)) = suffix

\* A prefix test that ignores case, as a regular expression with flag i does;
\* prefix is given in lower case.
StartsWithNoCase(s, prefix) ==
  /\ Len(s) >= Len(prefix)
  /\ \A i \in 1 .. Len(prefix) : Lower(s[i]) = prefix[i]

IsDigit(c) == c >= 48 /\ c <= 57

\* The class \w: letters, digits and the underscore.
IsWordChar(c) == (Lower(c) >= 97 /\ Lower(c) <= 122) \/ IsDigit(c) \/ c = 95

\* --------------------------------------------------------------- JSON.parse

\* The outcome of parsing one construct: the value and the index after it.
ParseFail == [ok |-> FALSE, val |-> Undefined, pos |-> 0]

Parsed(val, pos) == [ok |-> TRUE, val |-> val, pos |-> pos]

\* White space between JSON tokens: space, tab, line feed, carriage return.
JsonSpace == {32, 9, 10, 13}

RECURSIVE SkipSpace(_, _)
SkipSpace(s, i) ==
  IF i <= Len(s) /\ s[i] \in JsonSpace THEN SkipSpace(s, i + 1) ELSE i

RECURSIVE SkipDigits(_, _)
SkipDigits(s, i) ==
  IF i <= Len(s) /\ IsDigit(s[i]) THEN SkipDigits(s, i + 1) ELSE i

RECURSIVE DigitsValue(_)
\* The natural number a sequence of digits writes.
DigitsValue(digits) ==
  IF digits = <<>> THEN 0
  ELSE 10 * DigitsValue(SubSeq(digits, 1, Len(digits) - 1))
         + (digits[Len(digits)] - 48)

\* A number that is written with a fraction or an exponent keeps its text.
NumText(text) == [k |-> "number", v |-> 0, text |-> text]

\* number: -? (0 | [1-9][0-9]*) (. [0-9]+)? ([eE] [+-]? [0-9]+)?
ParseNumber(s, i) ==
  LET i1 == IF i <= Len(s) /\ s[i] = 45 THEN i + 1 ELSE i
      i2 == IF i1 <= Len(s) /\ s[i1] = 48 THEN i1 + 1 ELSE SkipDigits(s, i1)
      hasFrac == i2 <= Len(s) /\ s[i2] = 46
      i3 == IF hasFrac THEN SkipDigits(s, i2 + 1) ELSE i2
      hasExp == i3 <= Len(s) /\ s[i3] \in {69, 101}
      i4 == IF hasExp /\ i3 + 1 <= Len(s) /\ s[i3 + 1] \in {43, 45}
              THEN i3 + 2 ELSE i3 + 1
      i5 == IF hasExp THEN SkipDigits(s, i4) ELSE i3
  IN  IF i2 = i1 \/ (hasFrac /\ i3 = i2 + 1) \/ (hasExp /\ i5 = i4) THEN ParseFail
      ELSE IF hasFrac \/ hasExp THEN Parsed(NumText(SubSeq(s, i, i5 - 1)), i5)
      ELSE LET n == DigitsValue(SubSeq(s, i1, i2 - 1))
           IN  Parsed(Num(IF i1 > i THEN 0 - n ELSE n), i2)

IsHex(c) == IsDigit(c) \/ (Lower(c) >= 97 /\ Lower(c) <= 102)

HexValue(c) == IF IsDigit(c) THEN c - 48 ELSE Lower(c) - 87

\* The character a one-letter escape stands for; 0 if the letter is none.
Escape(c) ==
  CASE c = 34 -> 34 [] c = 92 -> 92 [] c = 47 -> 47 [] c = 98 -> 8
    [] c = 102 -> 12 [] c = 110 -> 10 [] c = 114 -> 13 [] c = 116 -> 9
    [] OTHER -> 0

RECURSIVE ParseChars(_, _, _)
\* The characters of a string literal from index i up to the closing quote.
ParseChars(s, i, acc) ==
  IF i > Len(s) \/ s[i] < 32 THEN ParseFail
  ELSE IF s[i] = 34 THEN Parsed(Str(acc), i + 1)
  ELSE IF s[i] # 92 THEN ParseChars(s, i + 1, Append(acc, s[i]))
  ELSE IF i + 1 > Len(s) THEN ParseFail
  ELSE IF s[i + 1] = 117
    THEN IF i + 5 <= Len(s) /\ \A j \in i + 2 .. i + 5 : IsHex(s[j])
           THEN ParseChars(s, i + 6,
                           Append(acc, 4096 * HexValue(s[i + 2]) + 256 * HexValue(s[i + 3])
                                         + 16 * HexValue(s[i + 4]) + HexValue(s[i + 5])))
           ELSE ParseFail
  ELSE IF Escape(s[i + 1]) # 0
    THEN ParseChars(s, i + 2, Append(acc, Escape(s[i + 1])))
  ELSE ParseFail

\* A literal name (true, false, null) at index i.
ParseLiteral(s, i, name, val) ==
  IF i + Len(name) - 1 <= Len(s) /\ SubSeq(s, i, i + Len(name) - 1) = name
    THEN Parsed(val, i + Len(name))
    ELSE ParseFail

RECURSIVE ParseValue(_, _)
RECURSIVE ParseElements(_, _, _)
RECURSIVE ParseMembers(_, _, _)

\* The elements of an array after its bracket or after a comma.
ParseElements(s, i, acc) ==
  LET r == ParseValue(s, i)
      j == SkipSpace(s, r.pos)
  IN  IF ~r.ok \/ j > Len(s) THEN ParseFail
      ELSE IF s[j] = 44 THEN ParseElements(s, j + 1, Append(acc, r.val))
      ELSE IF s[j] = 93 THEN Parsed(Arr(Append(acc, r.val)), j + 1)
      ELSE ParseFail

\* The members of an object after its brace or after a comma; a name given
\* twice keeps the later value.
ParseMembers(s, i, acc) ==
  LET j == SkipSpace(s, i)
      key == IF j <= Len(s) /\ s[j] = 34 THEN ParseChars(s, j + 1, <<>>) ELSE ParseFail
      c == SkipSpace(s, key.pos)
      r == IF key.ok /\ c <= Len(s) /\ s[c] = 58 THEN ParseValue(s, c + 1) ELSE ParseFail
      e == SkipSpace(s, r.pos)
      props == (key.val.v :> r.val) @@ acc
  IN  IF ~r.ok \/ e > Len(s) THEN ParseFail
      ELSE IF s[e] = 44 THEN ParseMembers(s, e + 1, props)
      ELSE IF s[e] = 125 THEN Parsed(Obj(props), e + 1)
      ELSE ParseFail

\* One JSON value, with the white space before it.
ParseValue(s, i) ==
  LET j == SkipSpace(s, i)
  IN  IF j > Len(s) THEN ParseFail
      ELSE IF s[j] = 123
        THEN LET m == SkipSpace(s, j + 1)
             IN  IF m <= Len(s) /\ s[m] = 125
                   THEN Parsed(Obj([n \in {} |-> Undefined]), m + 1)
                   ELSE ParseMembers(s, m, [n \in {} |-> Undefined])
      ELSE IF s[j] = 91
        THEN LET m == SkipSpace(s, j + 1)
             IN  IF m <= Len(s) /\ s[m] = 93
                   THEN Parsed(Arr(<<>>), m + 1)
                   ELSE ParseElements(s, m, <<>>)
      ELSE IF s[j] = 34 THEN ParseChars(s, j + 1, <<>>)
      ELSE IF s[j] = 45 \/ IsDigit(s[j]) THEN ParseNumber(s, j)
      ELSE IF s[j] = 116 THEN ParseLiteral(s, j, <<116, 114, 117, 101>>, Bool(TRUE))
      ELSE IF s[j] = 102 THEN ParseLiteral(s, j, <<102, 97, 108, 115, 101>>, Bool(FALSE))
      ELSE IF s[j] = 110 THEN ParseLiteral(s, j, <<110, 117, 108, 108>>, Null)
      ELSE ParseFail

\* JSON.parse(text): ok is FALSE where it throws a SyntaxError.
\* The value r parsed from s, if nothing but white space follows it.
ParsedWhole(s, r) == IF r.ok /\ SkipSpace(s, r.pos) > Len(s) THEN r ELSE ParseFail

JsonParse(s) == ParsedWhole(s, ParseValue(s, 1))

\* ------------------------------------------------------------------- base64

\* The six bits a character stands for when a Buffer is made from base64
\* text (the URL-safe - and _ included); 64 for any other character.
B64Index(c) ==
  IF c >= 65 /\ c <= 90 THEN c - 65
  ELSE IF c >= 97 /\ c <= 122 THEN c - 71
  ELSE IF IsDigit(c) THEN c + 4
  ELSE IF c \in {43, 45} THEN 62
  ELSE IF c \in {47, 95} THEN 63
  ELSE 64

RECURSIVE B64Values(_)
\* The six-bit values decoding reads: characters outside the alphabet are
\* skipped and the first = ends the input.
B64Values(s) ==
  IF s = <<>> \/ Head(s) = 61 THEN <<>>
  ELSE IF B64Index(Head(s)) < 64 THEN <<B64Index(Head(s))>> \o B64Values(Tail(s))
  ELSE B64Values(Tail(s))

RECURSIVE B64Bytes(_)
\* The bytes a sequence of six-bit values holds.
B64Bytes(vals) ==
  IF Len(vals) < 2 THEN <<>>
  ELSE LET b1 == vals[1] * 4 + (vals[2] \div 16)
       IN  IF Len(vals) = 2 THEN <<b1>>
           ELSE LET b2 == (vals[2] % 16) * 16 + (vals[3] \div 4)
                IN  IF Len(vals) = 3 THEN <<b1, b2>>
                    ELSE <<b1, b2, (vals[3] % 4) * 64 + vals[4]>>
                           \o B64Bytes(SubSeq(vals, 5, Len(vals)))

\* Buffer.from(str, 'base64')
BufferFromBase64(s) == Buf(B64Bytes(B64Values(s)))

\* The character that writes six bits.
B64Char(v) ==
  IF v < 26 THEN 65 + v
  ELSE IF v < 52 THEN 71 + v
  ELSE IF v < 62 THEN v - 4
  ELSE IF v = 62 THEN 43
  ELSE 47

RECURSIVE B64Encode(_)
\* buffer.toString('base64') on the bytes of a buffer.
B64Encode(bytes) ==
  IF bytes = <<>> THEN <<>>
  ELSE LET c1 == B64Char(bytes[1] \div 4)
       IN  IF Len(bytes) = 1
             THEN <<c1, B64Char((bytes[1] % 4) * 16), 61, 61>>
           ELSE LET c2 == B64Char((bytes[1] % 4) * 16 + (bytes[2] \div 16))
                IN  IF Len(bytes) = 2
                      THEN <<c1, c2, B64Char((bytes[2] % 16) * 4), 61>>
                    ELSE <<c1, c2, B64Char((bytes[2] % 16) * 4 + (bytes[3] \div 64)),
                           B64Char(bytes[3] % 64)>>
                           \o B64Encode(SubSeq(bytes, 4, Len(bytes)))

MIN_BASE64_LENGTH == 4

BASE64_CHUNK_SIZE == 4

\* /^[a-zA-Z0-9]+$/.test(str)
IsAlphanumeric(s) == s # <<>> /\ \A i \in 1 .. Len(s) : IsWordChar(s[i]) /\ s[i] # 95

\* A variant that leaves out the test against alphanumeric words.
isValidBase64_AnyWord(str) ==
  IF str.k # "string" \/ Len(str.v) < MIN_BASE64_LENGTH THEN FALSE
  ELSE IF Len(str.v) % BASE64_CHUNK_SIZE # 0 THEN FALSE
  ELSE LET decoded == BufferFromBase64(str.v)
       IN  IF Len(decoded.v) = 0 THEN FALSE
           ELSE B64Encode(decoded.v) = str.v

\* ResponseHelper.isValidBase64(str)
isValidBase64(str) ==
  IF str.k # "string" \/ Len(str.v) < MIN_BASE64_LENGTH THEN FALSE
  ELSE IF Len(str.v) % BASE64_CHUNK_SIZE # 0 THEN FALSE
  ELSE LET decoded == BufferFromBase64(str.v)
       IN  IF Len(decoded.v) = 0 THEN FALSE
           ELSE B64Encode(decoded.v) = str.v /\ ~IsAlphanumeric(str.v)

\* ----------------------------------------------------------------- sniffing

\* /^<\?xml\s/i
IsXmlDeclaration(s) ==
  StartsWithNoCase(s, <<60, 63, 120, 109, 108>>) /\ Len(s) >= 6 /\ s[6] \in WhiteSpace

\* /^<.+>$/s
IsAngleWrapped(s) == Len(s) >= 3 /\ s[1] = 60 /\ s[Len(s)] = 62

\* /^\s*<svg[\s>]/i
IsSvg(s) ==
  LET t == TrimStart(s)
  IN  /\ StartsWithNoCase(t, <<60, 115, 118, 103>>)
      /\ Len(t) >= 5
      /\ t[5] \in WhiteSpace \cup {62}

RECURSIVE SkipWord(_, _)
SkipWord(s, i) ==
  IF i <= Len(s) /\ IsWordChar(s[i]) THEN SkipWord(s, i + 1) ELSE i

RECURSIVE SkipWhite(_, _)
SkipWhite(s, i) ==
  IF i <= Len(s) /\ s[i] \in WhiteSpace THEN SkipWhite(s, i + 1) ELSE i

\* /^\s*(@import|@charset|\/\*|\w+\s*\{)/i
IsCss(s) ==
  LET t == TrimStart(s)
      w == SkipWord(t, 1)
      b == SkipWhite(t, w)
  IN  \/ StartsWithNoCase(t, <<64, 105, 109, 112, 111, 114, 116>>)
      \/ StartsWithNoCase(t, <<64, 99, 104, 97, 114, 115, 101, 116>>)
      \/ StartsWith(t, <<47, 42>>)
      \/ (w > 1 /\ b <= Len(t) /\ t[b] = 123)

\* The wrap in {...} or [...] that makes getContentType try JSON.parse.
IsBracketed(s) ==
  \/ (StartsWith(s, <<123>>) /\ EndsWith(s, <<125>>))
  \/ (StartsWith(s, <<91>>) /\ EndsWith(s, <<93>>))

\* A variant that tests the angle-bracket wrap before the XML declaration.
getContentType_HtmlFirst(content) ==
  LET trimmed == Trim(content)
  IN  IF trimmed = <<>> THEN "text/plain"
      ELSE IF IsBracketed(trimmed) /\ JsonParse(trimmed).ok THEN "application/json"
      ELSE IF IsAngleWrapped(trimmed) THEN "text/html"
      ELSE IF IsXmlDeclaration(trimmed) THEN "application/xml"
      ELSE IF IsSvg(trimmed) THEN "image/svg+xml"
      ELSE IF IsCss(trimmed) THEN "text/css"
      ELSE IF isValidBase64(Str(trimmed)) THEN "application/base64"
      ELSE "text/plain"

\* ResponseHelper.getContentType(content) on the code points of a string.
getContentType(content) ==
  LET trimmed == Trim(content)
  IN  IF trimmed = <<>> THEN "text/plain"
      ELSE IF IsBracketed(trimmed) /\ JsonParse(trimmed).ok THEN "application/json"
      ELSE IF IsXmlDeclaration(trimmed) THEN "application/xml"
      ELSE IF IsAngleWrapped(trimmed) THEN "text/html"
      ELSE IF IsSvg(trimmed) THEN "image/svg+xml"
      ELSE IF IsCss(trimmed) THEN "text/css"
      ELSE IF isValidBase64(Str(trimmed)) THEN "application/base64"
      ELSE "text/plain"

\* ------------------------------------------------------- body normalization

\* A symbol with the given description.
Sym(description) == [k |-> "symbol", v |-> description]

\* A function whose source text is given.
Fn(text) == [k |-> "function", v |-> text]

BigInt(n) == [k |-> "bigint", v |-> n]

\* A Date: valid with the text toISOString gives, or invalid (time NaN).
DateVal(iso) == [k |-> "date", valid |-> TRUE, v |-> iso]

InvalidDate == [k |-> "date", valid |-> FALSE]

\* A Map of the given <<key, value>> entries, in insertion order.
MapVal(entries) == [k |-> "map", v |-> entries]

SetVal(elements) == [k |-> "set", v |-> elements]

RegExpVal(pattern, flags) == [k |-> "regexp", v |-> pattern, flags |-> flags]

\* An object made with Object.create(null).
NullProtoObj(props) == [k |-> "object", v |-> props, nullProto |-> TRUE]

\* Inside an object or an array: a reference back to an enclosing object,
\* which closes a cycle.
Self == [k |-> "ref"]

\* The typeof operator on the kinds of value modelled.
TypeOf(body) ==
  CASE body.k \in {"number", "boolean", "string", "undefined", "symbol",
                   "function", "bigint"} -> body.k
    [] OTHER -> "object"

RECURSIVE Digits(_)
\* The decimal digits of a natural number, as code points.
Digits(n) == IF n < 10 THEN <<48 + n>> ELSE Digits(n \div 10) \o <<48 + (n % 10)>>

\* The decimal text of an integer.
IntText(n) == IF n < 0 THEN <<45>> \o Digits(0 - n) ELSE Digits(n)

\* '[object Object]'
ObjectObject == <<91, 111, 98, 106, 101, 99, 116, 32, 79, 98, 106, 101, 99, 116, 93>>

\* String(body), and body.toString() of a function, a bigint and a regular
\* expression, where they return.
String(body) ==
  CASE body.k = "number" ->
         Str(IF IsInteger(body) /\ "text" \notin DOMAIN body THEN IntText(body.v)
             ELSE IF "text" \in DOMAIN body THEN body.text
             ELSE IntText(body.v) \o <<46, 53>>)
    [] body.k = "boolean" ->
         Str(IF body.v THEN <<116, 114, 117, 101>> ELSE <<102, 97, 108, 115, 101>>)
    [] body.k = "symbol" ->
         Str(<<83, 121, 109, 98, 111, 108, 40>> \o body.v \o <<41>>)
    [] body.k = "function" -> Str(body.v)
    [] body.k = "bigint" -> Str(IntText(body.v))
    [] body.k = "regexp" -> Str(<<47>> \o body.v \o <<47>> \o body.flags)
    [] body.k = "object" -> Str(ObjectObject)
    [] body.k = "string" -> body
    [] body.k = "null" -> Str(<<110, 117, 108, 108>>)
    [] body.k = "undefined" -> Str(<<117, 110, 100, 101, 102, 105, 110, 101, 100>>)

\* String(body) throws: an object without a prototype has no toString.
StringThrows(body) == body.k = "object" /\ "nullProto" \in DOMAIN body

RECURSIVE StringifyThrows(_)
\* JSON.stringify(val) throws: on a cycle and on a BigInt, wherever it walks.
StringifyThrows(val) ==
  CASE val.k \in {"ref", "bigint"} -> TRUE
    [] val.k = "array" -> \E i \in 1 .. Len(val.v) : StringifyThrows(val.v[i])
    [] val.k = "object" -> \E key \in DOMAIN val.v : StringifyThrows(val.v[key])
    [] OTHER -> FALSE

\* What prepareBodyMetadata throws.
RangeErrorInvalidTime == ErrObj("invalidTime", "RangeError", TRUE, "")

TypeErrorToPrimitive == ErrObj("toPrimitive", "TypeError", TRUE, "")

\* The call threw the given error instead of returning a pair.
Thrown(error) == [threw |-> error]

Threw(r) == "threw" \in DOMAIN r

\* The own properties of an Error other than name, message and stack.
ErrorExtras(body) ==
  [key \in (DOMAIN body.v) \ {"name", "message", "stack"} |-> body.v[key]]

\* The handler of typeof 'string' in prepareBodyMetadata.
\* A variant that hands the text back without parsing it.
StringOfType_KeepsText(body, detectedType, parsed) ==
  [body |-> body, type |-> detectedType]

StringOfType(body, detectedType, parsed) ==
  IF detectedType = "application/json"
    THEN IF parsed.ok THEN [body |-> parsed.val, type |-> "application/json"]
         ELSE [body |-> Str(Trim(body.v)), type |-> "text/plain"]
    ELSE [body |-> body, type |-> detectedType]

StringHandler(body) ==
  StringOfType(body, getContentType(body.v), JsonParse(Trim(body.v)))

\* The handler of typeof 'object' in prepareBodyMetadata.
ObjectHandler(body) ==
  IF body.k = "error"
    THEN [ body |-> Obj(Spread([ name |-> body.name, message |-> ErrorMessage(body),
                                 stack |-> ErrorStack(body) ],
                               ErrorExtras(body))),
           type |-> "application/json" ]
  ELSE IF body.k = "date"
    THEN IF body.valid THEN [body |-> Str(body.v), type |-> "application/json"]
         ELSE Thrown(RangeErrorInvalidTime)
  ELSE IF body.k = "buffer" THEN [body |-> body, type |-> "application/octet-stream"]
  ELSE IF body.k = "array" THEN [body |-> body, type |-> "application/json"]
  ELSE IF body.k = "map"
    THEN [ body |-> Arr([i \in 1 .. Len(body.v) |-> Arr(body.v[i])]),
           type |-> "application/json" ]
  ELSE IF body.k = "set" THEN [body |-> Arr(body.v), type |-> "application/json"]
  ELSE IF body.k = "regexp" THEN [body |-> String(body), type |-> "text/plain"]
  ELSE IF ~StringifyThrows(body) THEN [body |-> body, type |-> "application/json"]
  ELSE IF StringThrows(body) THEN Thrown(TypeErrorToPrimitive)
  ELSE [body |-> String(body), type |-> "text/plain"]

\* ResponseHelper.prepareBodyMetadata(body, forceType): the pair it returns,
\* or Thrown(error) where it throws.
prepareBodyMetadata(body, forceType) ==
  IF forceType # "" THEN [body |-> body, type |-> forceType]
  ELSE IF body.k \in {"null", "undefined"} THEN [body |-> Str(<<>>), type |-> "text/plain"]
  ELSE IF TypeOf(body) = "string" THEN StringHandler(body)
  ELSE IF TypeOf(body) \in {"number", "boolean", "symbol"}
    THEN [body |-> String(body), type |-> "text/plain"]
  ELSE IF TypeOf(body) \in {"function", "bigint"}
    THEN [body |-> String(body), type |-> "text/plain"]
  ELSE ObjectHandler(body)

\* The outcome of #handleNonStreamResponse once prepareBodyMetadata has
\* answered with payload: instanceofError is  body instanceof Error.
nonStreamResult(b, payload, instanceofError) ==
  IF Threw(payload)
    THEN [processed |-> NoResult, failure |-> payload.threw, builder |-> b]
    ELSE [ processed |-> payload, failure |-> NoError,
           builder |-> IF instanceofError
                         THEN status(b, Num(STATUS_CODES.internalServerError)).builder
                         ELSE b ]

\* A variant that leaves the status alone for an Error body.
handleNonStreamResponse_KeepsStatus(b, body) ==
  nonStreamResult(b, prepareBodyMetadata(body, b.contentTypeOverride), FALSE)

\* #handleNonStreamResponse(body): the processed body and the builder after,
\* or the failure prepareBodyMetadata threw.
handleNonStreamResponse(b, body) ==
  nonStreamResult(b, prepareBodyMetadata(body, b.contentTypeOverride), body.k = "error")

\* ------------------------------------------------------------------- send

\* The clock's reading, as new Date().toISOString() and Date.now() give it.
NOW == "now"

\* The optional size entry:  ...(processedBody.size && { size })
SizeEntry(processedBody) ==
  IF Truthy(Get(processedBody, "size"))
    THEN [size |-> processedBody.size]
    ELSE [n \in {} |-> Undefined]

\* A variant in which the two computed headers are written after the
\* configured ones.
httpResponse_ComputedLast(b, processedBody) ==
  Spread([ statusCode |-> b.statusCode,
           headers |-> Spread(b.headers,
                              ("Content-Type" :> processedBody.type)
                                @@ ("X-Response-Time" :> NOW)),
           body |-> processedBody.body ],
         SizeEntry(processedBody))

httpResponse(b, processedBody) ==
  Spread([ statusCode |-> b.statusCode,
           headers |-> Spread(("Content-Type" :> processedBody.type)
                                @@ ("X-Response-Time" :> NOW), b.headers),
           body |-> processedBody.body ],
         SizeEntry(processedBody))

ipcResponse(b, processedBody) ==
  Spread([ statusCode |-> b.statusCode, body |-> processedBody.body,
           type |-> processedBody.type, timestamp |-> NOW ],
         SizeEntry(processedBody))

socketResponse(b, processedBody) ==
  Spread([ statusCode |-> b.statusCode, message |-> processedBody.body,
           type |-> processedBody.type, timestamp |-> NOW ],
         SizeEntry(processedBody))

protocolHandler(b, processedBody) ==
  CASE b.protocol = "http" -> httpResponse(b, processedBody)
    [] b.protocol = "ipc" -> ipcResponse(b, processedBody)
    [] b.protocol = "socket" -> socketResponse(b, processedBody)

\* The try block of send once the body is processed.
sendEnvelope(b, processedBody) ==
  IF processedBody.type # "" \/ Truthy(Get(processedBody, "size"))
    THEN Spread(protocolHandler(b, processedBody),
                [type |-> processedBody.type, size |-> Get(processedBody, "size")])
    ELSE protocolHandler(b, processedBody)

\* A variant that adds the context to every error.
sendCatch_AlwaysContext(b, error) ==
  [error EXCEPT !.context = [ has |-> TRUE, protocol |-> b.protocol,
                              statusCode |-> b.statusCode ]]

\* The catch block of send: the error as it is rethrown.
sendCatch(b, error) ==
  IF /\ error.name # "StreamTimeoutError"
     /\ error.name # "StreamSizeLimitError"
     /\ error.name # "InvalidStatusCodeError"
    THEN [error EXCEPT !.context = [ has |-> TRUE, protocol |-> b.protocol,
                                     statusCode |-> b.statusCode ]]
    ELSE error

NoEnvelope == [n \in {} |-> Undefined]

NoProcessed == [body |-> Undefined, type |-> ""]

\* new Error(`Unsupported protocol: ...`) thrown in the try block of send.
UnsupportedProtocolError == ErrObj("unsupportedProtocol", "Error", TRUE, "")

\* The promise send returns; state "none" before send is called.  While it is
\* pending, awaits says what send awaits: the consume operation ("stream") or
\* the body processed already ("value", kept in processed).
NoSend ==
  [ state |-> "none", awaits |-> "", processed |-> NoProcessed,
    failure |-> NoError, envelope |-> NoEnvelope, error |-> NoError ]

\* send after its await: #processBody failed with failure (NoError if it did
\* not) or gave processedBody.
sendAfterAwait(b, failure, processedBody) ==
  IF failure # NoError
    THEN [NoSend EXCEPT !.state = "rejected", !.error = sendCatch(b, failure)]
  ELSE IF b.protocol \notin PROTOCOLS
    THEN [ NoSend EXCEPT !.state = "rejected",
                         !.error = sendCatch(b, UnsupportedProtocolError) ]
  ELSE [ NoSend EXCEPT !.state = "fulfilled",
                       !.envelope = sendEnvelope(b, processedBody) ]

\* ------------------------------------------------------------------ state

VARIABLES
  builder,     \* the ResponseBuilder instance
  payload,     \* the body handed to the last send
  source,      \* the stream handed to send
  op,          \* the consume operation
  result,      \* the promise send returned
  exc,         \* the exception the last status call threw, NoError if none
  explicit,    \* the last valid code the caller passed to status, if any
  nSignals,    \* signals the source has emitted
  call,        \* history: the last call of the constructor or of a helper
  ref          \* history: what the signals so far amount to (see Observe)

vars == <<builder, payload, source, op, result, exc, explicit, nSignals, call, ref>>

\* No call yet.
NoCall == [fn |-> "", threw |-> FALSE]

\* The history of one consume operation, kept beside the code's own state and
\* never read by it: the first terminal signal (timeout, error, end, or the
\* chunk that took the bytes received past the limit), the bytes received
\* before it, the byte count including a crossing chunk, the error value if
\* an error was the terminal signal, and whether any signal came later.
NoRef ==
  [ terminal |-> "none", bytes |-> <<>>, total |-> 0, error |-> NoError,
    late |-> FALSE ]

\* The history after one more signal of the given kind.
Observe(r, limit, kind, chunk, error) ==
  IF r.terminal # "none" THEN [r EXCEPT !.late = TRUE]
  ELSE IF kind = "data"
    THEN LET n == r.total + Len(ToBuffer(chunk).v)
         IN  IF n > limit
               THEN [r EXCEPT !.total = n, !.terminal = "size"]
               ELSE [r EXCEPT !.total = n, !.bytes = @ \o ToBuffer(chunk).v]
  ELSE IF kind = "error" THEN [r EXCEPT !.terminal = "error", !.error = error]
  ELSE [r EXCEPT !.terminal = kind]

\* The configurations and inputs of the stream specification.
StreamTimeouts == {NoOpt, Opt(10)}

StreamSizes == {NoOpt, Opt(2), Opt(3)}

StreamOptions ==
  { Options("", NoHeaders, t, m, h, "") :
      t \in StreamTimeouts, m \in StreamSizes, h \in HookKinds }

StreamSources == {SrcGzip, SrcReadStream, SrcReadable, SrcPlain}

\* Chunks a source emits: buffers of 0, 1 and 2 bytes and a one-character
\* string that takes two bytes.
Chunks == {Buf(<<>>), Buf(<<97>>), Buf(<<98, 99>>), Str(<<233>>)}

StatusArgs == {Num(404), Num(99)}

Init ==
  /\ \E o \in StreamOptions : /\ ~Construct(o).threw
                              /\ builder = Construct(o).obj
  /\ source \in StreamSources
  /\ payload = Undefined
  /\ op = NewOp
  /\ result = NoSend
  /\ exc = NoError
  /\ explicit = NoOpt
  /\ nSignals = 0
  /\ call = NoCall
  /\ ref = NoRef

\* The caller calls status(code); not while a stream is being consumed.
Status(code) ==
  /\ op.phase = "idle"
  /\ LET r == status(builder, code)
     IN  /\ builder' = r.builder
         /\ exc' = r.error
         /\ explicit' = IF r.threw THEN explicit ELSE Opt(code.v)
  /\ UNCHANGED <<payload, source, op, result, nSignals, call, ref>>

\* send(stream) up to its await: #processBody starts the consume operation.
SendStream ==
  /\ op.phase = "idle"
  /\ result.state # "pending"
  /\ op' = handleStreamResponse(op)
  /\ payload' = [k |-> "stream", v |-> source]
  /\ result' = [NoSend EXCEPT !.state = "pending", !.awaits = "stream"]
  /\ UNCHANGED <<builder, source, exc, explicit, nSignals, call, ref>>

\* The timer fires.
Timeout ==
  /\ op.timer = "armed"
  /\ LET s == timeoutHandler([op EXCEPT !.timer = "fired"], builder, source)
     IN  op' = s.op /\ builder' = s.builder
  /\ ref' = Observe(ref, builder.maxStreamSize, "timeout", Buf(<<>>), NoError)
  /\ UNCHANGED <<payload, source, result, exc, explicit, nSignals, call>>

\* The source emits 'error' with some value; it reaches the consumer's
\* listener if that is still attached.
EmitError(error) ==
  /\ op.phase = "active"
  /\ nSignals < MaxSignals
  /\ nSignals' = nSignals + 1
  /\ LET s == IF "error" \in op.listeners
                THEN errorHandler(op, builder, source, error)
                ELSE Step(op, builder)
     IN  op' = s.op /\ builder' = s.builder
  /\ ref' = Observe(ref, builder.maxStreamSize, "error", Buf(<<>>), error)
  /\ UNCHANGED <<payload, source, result, exc, explicit, call>>

EmitData(chunk) ==
  /\ op.phase = "active"
  /\ nSignals < MaxSignals
  /\ nSignals' = nSignals + 1
  /\ LET s == IF "data" \in op.listeners
                THEN dataHandler(op, builder, source, chunk)
                ELSE Step(op, builder)
     IN  op' = s.op /\ builder' = s.builder
  /\ ref' = Observe(ref, builder.maxStreamSize, "data", chunk, NoError)
  /\ UNCHANGED <<payload, source, result, exc, explicit, call>>

EmitEnd ==
  /\ op.phase = "active"
  /\ nSignals < MaxSignals
  /\ nSignals' = nSignals + 1
  /\ LET s == IF "end" \in op.listeners
                THEN endHandler(op, builder, source)
                ELSE Step(op, builder)
     IN  op' = s.op /\ builder' = s.builder
  /\ ref' = Observe(ref, builder.maxStreamSize, "end", Buf(<<>>), NoError)
  /\ UNCHANGED <<payload, source, result, exc, explicit, call>>

\* The callback queued with setImmediate runs: reject(sizeError).
RunImmediate ==
  /\ op.immediates # <<>>
  /\ op' = Reject([op EXCEPT !.immediates = Tail(@)], Head(op.immediates))
  /\ UNCHANGED <<payload, builder, source, result, exc, explicit, nSignals, call, ref>>

\* send resumes after its await once the consume operation's promise settled.
SendResume ==
  /\ result.state = "pending"
  /\ result.awaits = "stream"
  /\ op.promise.state # "pending"
  /\ result' = sendAfterAwait(builder,
                              IF op.promise.state = "rejected" THEN op.promise.error
                              ELSE NoError,
                              op.promise.value)
  /\ UNCHANGED <<payload, builder, source, op, exc, explicit, nSignals, call, ref>>

Next ==
  \/ \E code \in StatusArgs : Status(code)
  \/ SendStream
  \/ Timeout
  \/ \E error \in ErrorValues : EmitError(error)
  \/ \E chunk \in Chunks : EmitData(chunk)
  \/ EmitEnd
  \/ RunImmediate
  \/ SendResume

Spec == Init /\ [][Next]_vars

\* The timer the code arms fires unless cleared, a setImmediate callback
\* runs, and a settled await resumes: Node's event loop guarantees all three.
FairSpec ==
  Spec /\ WF_vars(Timeout) /\ WF_vars(RunImmediate) /\ WF_vars(SendResume)

\* ------------------------------------------- the builder on plain payloads

\* Code points of the strings the payloads carry.
S_fail == Str(<<102, 97, 105, 108>>)

S_Error == Str(<<69, 114, 114, 111, 114>>)

S_MyError == Str(<<77, 121, 69, 114, 114, 111, 114>>)

S_stack == Str(<<97, 116, 32, 109, 97, 105, 110>>)

S_ENOENT == Str(<<69, 78, 79, 69, 78, 84>>)

\* new Error('fail')
ErrFail == ErrorValue(S_Error, [message |-> S_fail, stack |-> S_stack])

\* new Error(): no own message.
ErrBare == ErrorValue(S_Error, [stack |-> S_stack])

\* An error with an own name and the extra own properties code and statusCode.
ErrExtras ==
  ErrorValue(S_MyError, [ name |-> S_MyError, message |-> S_fail, stack |-> S_stack,
                          code |-> S_ENOENT, statusCode |-> Num(404) ])

ErrorPayloads == {ErrFail, ErrBare, ErrExtras}

PlainPayloads ==
  { Null, Undefined, Num(42), Bool(TRUE), Buf(<<97, 98>>), Arr(<<Num(1), Num(2)>>),
    Obj([a |-> Num(1)]) }

Payloads == ErrorPayloads \cup PlainPayloads

BuilderOptions ==
  { Options(p, h, NoOpt, NoOpt, "none", c) :
      p \in {"", "ipc", "socket"},
      h \in {NoHeaders, ("Content-Type" :> "text/csv") @@ ("X-Api" :> "1")},
      c \in {"", "text/html"} }

InitBuilder ==
  /\ \E o \in BuilderOptions : /\ ~Construct(o).threw
                               /\ builder = Construct(o).obj
  /\ source = SrcPlain
  /\ payload = Undefined
  /\ op = NewOp
  /\ result = NoSend
  /\ exc = NoError
  /\ explicit = NoOpt
  /\ nSignals = 0
  /\ call = NoCall
  /\ ref = NoRef

\* The caller calls header(name, value).
Header(name, value) ==
  /\ op.phase = "idle"
  /\ builder' = header(builder, name, value)
  /\ UNCHANGED <<payload, source, op, result, exc, explicit, nSignals, call, ref>>

\* Arguments of status: codes inside the range and at its ends, codes just
\* outside, a number that is no integer, and values that are no numbers.
BuilderStatusArgs ==
  { Num(404), Num(100), Num(599), Num(99), Num(600), Num(0), Num(-200), Half(200),
    Str(<<50, 48, 48>>), Undefined }

HeaderArgs == {<<"X-Api", "2">>, <<"Content-Type", "text/xml">>}

\* send is suspended at its await with the outcome r of the processing.
awaitingValue(r) ==
  [ NoSend EXCEPT !.state = "pending", !.awaits = "value",
                  !.processed = r.processed, !.failure = r.failure ]

\* send(body) for a body without a pipe function, up to its await: the body
\* is normalized and an Error forces the status.
SendValue(body) ==
  /\ op.phase = "idle"
  /\ result.state # "pending"
  /\ builder' = handleNonStreamResponse(builder, body).builder
  /\ result' = awaitingValue(handleNonStreamResponse(builder, body))
  /\ payload' = body
  /\ UNCHANGED <<source, op, exc, explicit, nSignals, call, ref>>

\* send resumes after its await and shapes the envelope.
SendValueResume ==
  /\ result.state = "pending"
  /\ result.awaits = "value"
  /\ result' = sendAfterAwait(builder, result.failure, result.processed)
  /\ UNCHANGED <<payload, builder, source, op, exc, explicit, nSignals, call, ref>>

NextBuilder ==
  \/ \E code \in BuilderStatusArgs : Status(code)
  \/ \E h \in HeaderArgs : Header(h[1], h[2])
  \/ \E body \in Payloads : SendValue(body)
  \/ SendValueResume

BuilderSpec == InitBuilder /\ [][NextBuilder]_vars

\* ------------------------------------------------- claims about consuming

\* A step in which a signal reaches the operation: the source emits, or the
\* timer fires.
SignalStep == nSignals' # nSignals \/ (op.timer = "armed" /\ op'.timer = "fired")

\* What a signal could disturb: the outcome, the accumulated bytes, the
\* builder's status, further resolve/reject calls now or queued, and
\* exceptions thrown into the source.
Untouched ==
  /\ op'.promise = op.promise
  /\ op'.chunks = op.chunks
  /\ op'.totalBytes = op.totalBytes
  /\ builder'.statusCode = builder.statusCode
  /\ op'.settleCalls = op.settleCalls
  /\ op'.immediates = op.immediates
  /\ op'.escaped = op.escaped

\* C1: under every interleaving of timeout, error, data and end, resolve or
\* reject is called at most once (counting a reject still queued), and every
\* signal that arrives after the first terminal signal changes nothing: not
\* the outcome, not the accumulated bytes, not the builder's statusCode, and
\* it causes no further rejection.
C1_SettlesOnceLaterSignalsNoOp ==
  /\ [](op.settleCalls + Len(op.immediates) <= 1)
  /\ [][(ref.terminal # "none" /\ SignalStep) => Untouched]_vars

\* C1 witness: a signal arrived after the size limit had failed the
\* operation, and the promise is rejected.
C1_Witness ==
  /\ ref.terminal = "size"
  /\ ref.late
  /\ op.promise.state = "rejected"
  /\ op.settleCalls = 1

\* C2: destroyStream is never called twice for one consume operation, and
\* once a terminal signal has arrived or the promise has settled it has been
\* called exactly once.
C2_ReleasedExactlyOnce ==
  /\ op.destroyCalls <= 1
  /\ (ref.terminal # "none" \/ op.isSettled \/ op.promise.state # "pending")
       => op.destroyCalls = 1

\* C2 witness: the operation resolved at end, further signals followed, and
\* the source was released once.
C2_Witness ==
  /\ op.promise.state = "fulfilled"
  /\ ref.late
  /\ nSignals = MaxSignals
  /\ op.destroyCalls = 1

Settled == result.state \in {"fulfilled", "rejected"}

\* C3: every consume operation eventually settles the promise send returned,
\* whatever the source emits, and when the timeout is the first terminal
\* signal it rejects with a StreamTimeoutError carrying the configured
\* streamTimeout.
C3_EventuallySettles ==
  /\ (op.phase = "active") ~> Settled
  /\ []((Settled /\ ref.terminal = "timeout")
          => /\ result.state = "rejected"
             /\ result.error.name = "StreamTimeoutError"
             /\ result.error.timeout = builder.streamTimeout)

\* The failure the size limit produces, queued or already delivered.
SizeFailure ==
  IF op.immediates # <<>> THEN Head(op.immediates)
  ELSE IF op.promise.state = "rejected" /\ op.promise.error.name = "StreamSizeLimitError"
    THEN op.promise.error
  ELSE NoError

\* C4: the operation fails for size exactly when a chunk takes the bytes
\* received past maxStreamSize before any other terminal signal; the failure
\* is a StreamSizeLimitError with limit = maxStreamSize and actual = the
\* bytes received including the crossing chunk; a total equal to the limit
\* does not fail.
C4_SizeLimitStrict ==
  /\ (SizeFailure # NoError) <=> (ref.terminal = "size")
  /\ ref.terminal = "size" =>
       /\ SizeFailure = StreamSizeLimitError(builder.maxStreamSize, ref.total)
       /\ ref.total > builder.maxStreamSize
  /\ (ref.terminal # "size" /\ op.phase = "active") => ref.total <= builder.maxStreamSize

\* C4 witness: chunks summing to the limit exactly were accepted and the next
\* one failed the operation with (limit, actual).
C4_Witness ==
  /\ ref.terminal = "size"
  /\ Len(ref.bytes) = builder.maxStreamSize
  /\ op.promise.state = "rejected"
  /\ op.promise.error.limit = builder.maxStreamSize
  /\ op.promise.error.actual > builder.maxStreamSize

\* C5: a resolved operation's body is the concatenation, in arrival order, of
\* the chunks received before end, and size is the byte length of body; the
\* envelope send returns carries the same body and size.
C5_BodyIsConcatenation ==
  /\ op.promise.state = "fulfilled" =>
       /\ ref.terminal = "end"
       /\ op.promise.value.body = Buf(ref.bytes)
       /\ op.promise.value.size = Num(Len(ref.bytes))
  /\ result.state = "fulfilled" =>
       /\ result.envelope.body = Buf(ref.bytes)
       /\ result.envelope.size = Num(Len(ref.bytes))

\* C5 witness: a buffer and a two-byte string arrived before end.
C5_Witness ==
  /\ result.state = "fulfilled"
  /\ result.envelope.body = Buf(<<97, 195, 169>>)
  /\ result.envelope.size = Num(3)

\* C6 as claimed: the type of a resolved stream result is what getStreamType
\* derives from the kind of the source.
C6_TypeFromSourceKind ==
  op.promise.state = "fulfilled" => op.promise.value.type = getStreamType(source)

\* C6 amended: the type of a resolved stream result is application/octet-stream
\* whatever the kind of the source, in the operation's result and in the
\* envelope.
C6_TypeIsOctetStream ==
  /\ op.promise.state = "fulfilled" =>
       op.promise.value.type = "application/octet-stream"
  /\ result.state = "fulfilled" => result.envelope.type = "application/octet-stream"

\* C6 witness: a gzip source, which getStreamType classifies application/gzip,
\* resolved.
C6_Witness ==
  /\ result.state = "fulfilled"
  /\ source = SrcGzip
  /\ getStreamType(source) = "application/gzip"

\* The rejection of send stems from a source error.
RejectedBySourceError == result.state = "rejected" /\ ref.terminal = "error"

C8_HookNotUsedForTimeoutOrSize ==
  ref.terminal \in {"timeout", "size"} =>
    /\ op.hookCalls = 0
    /\ LET name == IF ref.terminal = "timeout" THEN "StreamTimeoutError"
                   ELSE "StreamSizeLimitError"
       IN  /\ op.promise.state = "rejected" => op.promise.error.name = name
           /\ result.state = "rejected" => result.error.name = name
           /\ op.promise.state # "fulfilled"

\* C8 witness: a hook that would replace any error is configured, the timeout
\* ended the operation, an error arrived afterwards, and send rejected.
C8_Witness ==
  /\ builder.customErrorHandler = "returnsReplacement"
  /\ ref.terminal = "timeout"
  /\ ref.late
  /\ result.state = "rejected"
  /\ result.error.name = "StreamTimeoutError"

\* --------------------------------------------- claims about Error payloads

\* The envelope send resolved with came from an Error payload.
ErrorSent == result.state = "fulfilled" /\ payload.k = "error"

\* The normalized body inside the envelope, whatever the protocol's shape.
EnvelopeBody ==
  IF "message" \in DOMAIN result.envelope THEN result.envelope.message
  ELSE result.envelope.body

\* C9: after status(c) with a valid code c, send(errorObject) answers with
\* statusCode c; the 500 is forced only when no status was set explicitly.
C9_ExplicitStatusKept ==
  (ErrorSent /\ explicit # NoOpt) => result.envelope.statusCode = explicit.val

\* The envelope of an Error payload: 500, application/json, and a body with
\* the error's name, message, stack and each extra own property.
ErrorEnvelope ==
  /\ result.envelope.statusCode = 500
  /\ result.envelope.type = "application/json"
  /\ ( /\ "headers" \in DOMAIN result.envelope
       /\ "Content-Type" \notin DOMAIN builder.headers
       /\ builder.protocol = "http" )
       => result.envelope.headers["Content-Type"] = "application/json"
  /\ EnvelopeBody.k = "object"
  /\ DOMAIN EnvelopeBody.v = {"name", "message", "stack"} \cup DOMAIN payload.v
  /\ EnvelopeBody.v.name = payload.name
  /\ EnvelopeBody.v.message = ErrorMessage(payload)
  /\ EnvelopeBody.v.stack = ErrorStack(payload)
  /\ \A key \in (DOMAIN payload.v) \ {"name", "message", "stack"} :
       EnvelopeBody.v[key] = payload.v[key]

\* C10 as stated: send(errorObject) on a builder whose status was never set
\* answers 500, application/json, with name, message, stack and the extras.
C10_ErrorEnvelopeAlways == (ErrorSent /\ explicit = NoOpt) => ErrorEnvelope

\* C10: send(errorObject) on a builder whose status was never set and that has
\* no contentType override answers with statusCode 500, content type
\* application/json, and a body of the error's name, message and stack plus
\* the error's own extra properties.
C10_ErrorEnvelopeWithoutOverride ==
  (ErrorSent /\ explicit = NoOpt /\ builder.contentTypeOverride = "") => ErrorEnvelope

C10_Witness ==
  /\ ErrorSent
  /\ explicit = NoOpt
  /\ builder.contentTypeOverride = ""
  /\ payload = ErrExtras
  /\ EnvelopeBody.v.code = S_ENOENT
  /\ result.envelope.statusCode = 500

\* -------------------------------------------------- the life of a builder

\* One builder through status, header and plain sends and then one stream
\* send, with small inputs of each kind.
LifeOptions ==
  { Options(p, NoHeaders, NoOpt, Opt(2), h, "") :
      p \in {NoProtocol, "socket"}, h \in LifeHookKinds }

LifePayloads == {ErrFail, Num(42)}

InitLife ==
  /\ \E o \in LifeOptions : /\ ~Construct(o).threw
                            /\ builder = Construct(o).obj
  /\ source = SrcReadable
  /\ payload = Undefined
  /\ op = NewOp
  /\ result = NoSend
  /\ exc = NoError
  /\ explicit = NoOpt
  /\ nSignals = 0
  /\ call = NoCall
  /\ ref = NoRef

NextLife ==
  \/ \E code \in StatusArgs : Status(code)
  \/ Header("X-Api", "2")
  \/ \E body \in LifePayloads : SendValue(body)
  \/ SendValueResume
  \/ SendStream
  \/ Timeout
  \/ \E error \in ErrorValues : EmitError(error)
  \/ \E chunk \in Chunks : EmitData(chunk)
  \/ EmitEnd
  \/ RunImmediate
  \/ SendResume

LifeSpec == InitLife /\ [][NextLife]_vars

\* ------------------------------------------------ claims about the builder

StatusRange == 100 .. 599

\* C11: after any sequence of constructor, status, header and send
\* operations, sends failing with stream errors included, the builder's
\* statusCode and the statusCode of every envelope returned is an integer in
\* [100, 599].
C11_StatusCodeInRange ==
  /\ builder.statusCode \in StatusRange
  /\ result.state = "fulfilled" => result.envelope.statusCode \in StatusRange
  /\ (result.state = "rejected" /\ result.error.context.has)
       => result.error.context.statusCode \in StatusRange

\* A stream send failed with EACCES after status(99) was refused.
C11_Witness ==
  /\ result.state = "rejected"
  /\ payload.k = "stream"
  /\ builder.statusCode = 403
  /\ exc.name = "InvalidStatusCodeError"
  /\ "X-Api" \in DOMAIN builder.headers

\* An integer in [100, 599].
ValidCode(code) == code.k = "number" /\ IsInteger(code) /\ code.v \in StatusRange

\* C12: status(code) with a code that is no integer in [100, 599] throws
\* InvalidStatusCodeError and leaves statusCode, headers and protocol (the
\* whole builder) unchanged; with a valid code it sets statusCode to the code
\* and nothing else, and does not throw.
C12_StatusValidates ==
  [][ \A code \in BuilderStatusArgs :
        Status(code) =>
          IF ValidCode(code)
            THEN /\ builder' = [builder EXCEPT !.statusCode = code.v]
                 /\ exc' = NoError
            ELSE /\ builder' = builder
                 /\ exc'.name = "InvalidStatusCodeError"
                 /\ exc'.statusCode = code ]_vars

\* status(200.5) was refused on a builder that status(404) and a header call
\* had changed before.
C12_Witness ==
  /\ exc.name = "InvalidStatusCodeError"
  /\ exc.statusCode = Half(200)
  /\ explicit = Opt(404)
  /\ builder.statusCode = 404
  /\ "X-Api" \in DOMAIN builder.headers

\* ------------------------------------------------------------ construction

\* Options of every kind for the protocol and the two limits: no protocol,
\* the empty string, the three identifiers, an unknown one and one in the
\* wrong case; no limit, zero, a negative and a positive one.
ConstructProtocols == {NoProtocol, "", "http", "ipc", "socket", "ftp", "HTTP"}

ConstructLimits == {NoOpt, Opt(0), Opt(-1), Opt(10)}

ConstructOptions ==
  { Options(p, NoHeaders, t, m, "none", "") :
      p \in ConstructProtocols, t \in ConstructLimits, m \in ConstructLimits }

\* Before the first call there is a builder made without options.
InitConstruct ==
  /\ builder = Construct(Options(NoProtocol, NoHeaders, NoOpt, NoOpt, "none", "")).obj
  /\ source = SrcPlain
  /\ payload = Undefined
  /\ op = NewOp
  /\ result = NoSend
  /\ exc = NoError
  /\ explicit = NoOpt
  /\ nSignals = 0
  /\ call = NoCall
  /\ ref = NoRef

\* new ResponseBuilder(options): the caller holds the new instance, or, if
\* the constructor threw, still the one it held.
New(options) ==
  /\ result.state # "pending"
  /\ LET r == Construct(options)
     IN  /\ call' = [fn |-> "ResponseBuilder", threw |-> r.threw, arg |-> options]
         /\ IF r.threw
              THEN UNCHANGED <<builder, payload, result, exc, explicit>>
              ELSE /\ builder' = r.obj
                   /\ payload' = Undefined
                   /\ result' = NoSend
                   /\ exc' = NoError
                   /\ explicit' = NoOpt
  /\ UNCHANGED <<source, op, nSignals, ref>>

NextConstruct ==
  \/ \E o \in ConstructOptions : New(o)
  \/ SendValue(Num(42))
  \/ SendValueResume

ConstructSpec == InitConstruct /\ [][NextConstruct]_vars

Constructed == call.fn = "ResponseBuilder"

\* No instance has an unrecognised protocol, and send never met one.
ProtocolRecognised ==
  /\ builder.protocol \in PROTOCOLS
  /\ result.state = "rejected" => result.error.id # "unsupportedProtocol"

\* C13 as stated: constructing with a protocol value that is not one of http,
\* ipc, socket throws, so no instance with an unrecognised protocol exists.
C13_UnrecognisedProtocolThrows ==
  /\ (Constructed /\ call.arg.protocol \notin PROTOCOLS \cup {NoProtocol}) => call.threw
  /\ ProtocolRecognised

\* C13: constructing with a non-empty protocol value that is not one of http,
\* ipc, socket throws; with no protocol or the empty string the instance has
\* protocol http; so no instance with an unrecognised protocol exists and
\* send never has to handle one.
C13_ProtocolValidated ==
  /\ (Constructed /\ call.arg.protocol \notin PROTOCOLS \cup {NoProtocol, ""})
       => call.threw
  /\ (Constructed /\ ~call.threw /\ call.arg.protocol \in {NoProtocol, ""})
       => builder.protocol = "http"
  /\ (Constructed /\ ~call.threw /\ call.arg.protocol \in PROTOCOLS)
       => builder.protocol = call.arg.protocol
  /\ ProtocolRecognised

\* The constructor threw on protocol ftp with no limits given, and the
\* builder held before still answers.
C13_Witness ==
  /\ Constructed
  /\ call.threw
  /\ call.arg.protocol = "ftp"
  /\ call.arg.streamTimeout = NoOpt
  /\ call.arg.maxStreamSize = NoOpt
  /\ result.state = "fulfilled"

NonPositive(opt) == opt.has /\ opt.val <= 0

\* C14: constructing fails whenever the supplied streamTimeout or
\* maxStreamSize is non-positive, zero or negative.
C14_NonPositiveLimitThrows ==
  (Constructed /\ (NonPositive(call.arg.streamTimeout) \/ NonPositive(call.arg.maxStreamSize)))
    => call.threw

\* C15: an envelope carries a size field only when the payload was a stream,
\* and then size is the number of bytes buffered; an envelope made from a
\* payload that is no stream has no size field.
C15_SizeOnlyForStreams ==
  result.state = "fulfilled" =>
    IF payload.k = "stream"
      THEN /\ "size" \in DOMAIN result.envelope
           /\ result.envelope.size = Num(Len(ref.bytes))
      ELSE "size" \notin DOMAIN result.envelope

\* The failure kinds that describe themselves.
Catalogued == {"StreamTimeoutError", "StreamSizeLimitError", "InvalidStatusCodeError"}

\* C16: a failure re-raised from send carries a context with the builder's
\* protocol and current statusCode, except a StreamTimeoutError, a
\* StreamSizeLimitError and an InvalidStatusCodeError, which are rethrown as
\* they are, without a context.
C16_ContextExceptCatalogued ==
  (result.state = "rejected" /\ payload.k = "stream") =>
    IF op.promise.error.name \in Catalogued
      THEN /\ result.error = op.promise.error
           /\ ~result.error.context.has
      ELSE /\ result.error.id = op.promise.error.id
           /\ result.error.context =
                [ has |-> TRUE, protocol |-> builder.protocol,
                  statusCode |-> builder.statusCode ]

\* A source error with code ENOENT came back with the context of a socket
\* builder whose status the error had moved to 404.
C16_Witness ==
  /\ result.state = "rejected"
  /\ result.error.id = "E_ENOENT"
  /\ result.error.context = [has |-> TRUE, protocol |-> "socket", statusCode |-> 404]

\* An InvalidStatusCodeError thrown by the hook came back without a context.
C16_WitnessCatalogued ==
  /\ result.state = "rejected"
  /\ result.error.name = "InvalidStatusCodeError"

\* -------------------------------------------------------------- the helpers

\* Strings are drawn from all sequences up to this length over SniffAlphabet.
MaxStringLen == 4

\* Q t = + - space { }
SniffAlphabet == {81, 116, 61, 43, 45, 32, 123, 125}

\* "dGVzdA==" and "test"
S_dGVzdA == <<100, 71, 86, 122, 100, 65, 61, 61>>

S_test == <<116, 101, 115, 116>>

\* More strings of each class: {"a":1}, [1,2], <p>x</p>, <?xml ?>,
\* <svg >, a {}, {a}, "  dGVzdA== ", QUJDRA==, QUJDRA=, abcd1234.
StringExamples ==
  { S_dGVzdA, S_test,
    <<123, 34, 97, 34, 58, 49, 125>>, <<91, 49, 44, 50, 93>>,
    <<60, 112, 62, 120, 60, 47, 112, 62>>, <<60, 63, 120, 109, 108, 32, 63, 62>>,
    <<60, 115, 118, 103, 32, 62>>, <<97, 32, 123, 125>>, <<123, 97, 125>>,
    <<32, 32>> \o S_dGVzdA \o <<32>>,
    <<81, 85, 74, 68, 82, 65, 61, 61>>, <<81, 85, 74, 68, 82, 65, 61>>,
    <<97, 98, 99, 100, 49, 50, 51, 52>> }

SniffStrings ==
  StringExamples \cup UNION { [1 .. n -> SniffAlphabet] : n \in 0 .. MaxStringLen }

\* Values of every kind that is no string.
OtherValues ==
  { Undefined, Null, Num(0), Num(42), Num(-7), Half(1), Bool(TRUE), Bool(FALSE),
    Sym(<<120>>), Fn(<<40, 41, 61, 62, 49>>), BigInt(10),
    ErrFail, ErrBare, ErrExtras, ErrorValue(S_Error, [stack |-> S_stack, cause |-> Self]),
    DateVal(<<50, 48, 50, 52, 45, 48, 49, 45, 48, 49, 84, 48, 48, 58, 48, 48, 58,
              48, 48, 46, 48, 48, 48, 90>>),
    InvalidDate,
    Buf(<<>>), Buf(<<97, 98>>),
    Arr(<<>>), Arr(<<Num(1), Str(S_test)>>), Arr(<<Self>>), Arr(<<Obj([a |-> Self])>>),
    MapVal(<< <<Str(S_test), Num(1)>> >>), MapVal(<< <<Str(S_test), Self>> >>),
    SetVal(<<Num(1), Num(2)>>), SetVal(<<Self>>),
    RegExpVal(<<97, 43>>, <<103>>),
    Obj([n \in {} |-> Undefined]), Obj([a |-> Num(1)]), Obj([a |-> Arr(<<Num(1)>>)]),
    Obj([self |-> Self]), Obj([a |-> Obj([b |-> Self])]), Obj([a |-> Arr(<<Self>>)]),
    Obj([n |-> BigInt(1)]),
    NullProtoObj([a |-> Num(1)]), NullProtoObj([self |-> Self]) }

ForceTypes == {"", "text/csv"}

InitHelper ==
  /\ builder = Construct(Options(NoProtocol, NoHeaders, NoOpt, NoOpt, "none", "")).obj
  /\ source = SrcPlain
  /\ payload = Undefined
  /\ op = NewOp
  /\ result = NoSend
  /\ exc = NoError
  /\ explicit = NoOpt
  /\ nSignals = 0
  /\ call = NoCall
  /\ ref = NoRef

\* ResponseHelper.prepareBodyMetadata(body, forceType) is called, once in a
\* behavior: the helpers keep no state between calls.
Normalize(body, forceType) ==
  /\ call = NoCall
  /\ LET r == prepareBodyMetadata(body, forceType)
     IN  call' = [ fn |-> "prepareBodyMetadata", threw |-> Threw(r), arg |-> body,
                   forceType |-> forceType, out |-> r ]
  /\ UNCHANGED <<builder, payload, source, op, result, exc, explicit, nSignals, ref>>

\* ResponseHelper.getContentType(content) is called.
Sniff(content) ==
  /\ call = NoCall
  /\ call' = [ fn |-> "getContentType", threw |-> FALSE, arg |-> Str(content),
               out |-> getContentType(content) ]
  /\ UNCHANGED <<builder, payload, source, op, result, exc, explicit, nSignals, ref>>

NextHelper ==
  \/ \E body \in OtherValues, forceType \in ForceTypes : Normalize(body, forceType)
  \/ \E content \in SniffStrings, forceType \in ForceTypes :
       Normalize(Str(content), forceType)
  \/ \E content \in SniffStrings : Sniff(content)

HelperSpec == InitHelper /\ [][NextHelper]_vars

\* ------------------------------------------------ claims about the helpers

Normalized == call.fn = "prepareBodyMetadata"

\* The fixed MIME strings the normalizer knows.
KnownTypes ==
  { "text/plain", "application/json", "application/xml", "text/html",
    "image/svg+xml", "text/css", "application/base64", "application/octet-stream" }

\* C17: prepareBodyMetadata never throws and always returns a {body, type}
\* pair for every input that is no stream, invalid Date objects and cyclic
\* and prototype-less objects included; without a forceType the type is one
\* of the fixed known MIME strings.
C17_NormalizeNeverThrows ==
  Normalized =>
    /\ ~call.threw
    /\ DOMAIN call.out = {"body", "type"}
    /\ call.forceType = "" => call.out.type \in KnownTypes

RECURSIVE HasCycle(_)
\* The value holds a reference back into itself.
HasCycle(val) ==
  CASE val.k = "ref" -> TRUE
    [] val.k \in {"array", "set"} -> \E i \in 1 .. Len(val.v) : HasCycle(val.v[i])
    [] val.k = "map" ->
         \E i \in 1 .. Len(val.v) : HasCycle(val.v[i][1]) \/ HasCycle(val.v[i][2])
    [] val.k \in {"object", "error"} -> \E key \in DOMAIN val.v : HasCycle(val.v[key])
    [] OTHER -> FALSE

\* C18: for every input object that contains a reference cycle,
\* prepareBodyMetadata returns type text/plain with a string body and does
\* not propagate the serialization failure.
C18_CyclicIsPlainText ==
  (Normalized /\ call.forceType = "" /\ HasCycle(call.arg)) =>
    /\ ~call.threw
    /\ call.out.type = "text/plain"
    /\ call.out.body.k = "string"

Sniffed == call.fn = "getContentType"

\* The conditions of a base64 string, on the trimmed text.
Base64Conditions(s) ==
  /\ Len(s) >= 4
  /\ Len(s) % 4 = 0
  /\ Len(BufferFromBase64(s).v) >= 1
  /\ B64Encode(BufferFromBase64(s).v) = s
  /\ \E i \in 1 .. Len(s) : ~(IsDigit(s[i]) \/ (Lower(s[i]) >= 97 /\ Lower(s[i]) <= 122))

\* C20: a string is classified application/base64 only if, trimmed, its
\* length is at least 4 and divisible by 4, it decodes to at least one byte,
\* encoding the decoded bytes gives the string back, and it is not made of
\* characters [A-Za-z0-9] alone; every alphanumeric word is text/plain and
\* "dGVzdA==" is application/base64.
C20_Base64Classification ==
  /\ (Sniffed /\ call.out = "application/base64") => Base64Conditions(Trim(call.arg.v))
  /\ (Sniffed /\ IsAlphanumeric(Trim(call.arg.v))) => call.out = "text/plain"
  /\ (Sniffed /\ call.arg.v = S_dGVzdA) => call.out = "application/base64"
  /\ (Normalized /\ call.forceType = "" /\ call.arg.k = "string"
        /\ call.out.type = "application/base64")
       => Base64Conditions(Trim(call.arg.v))
  /\ (Normalized /\ call.forceType = "" /\ call.arg = Str(S_test))
       => call.out = [body |-> Str(S_test), type |-> "text/plain"]

\* "QQ==" was sniffed and classified application/base64.
C20_Witness ==
  /\ Sniffed
  /\ call.arg = Str(<<81, 81, 61, 61>>)
  /\ call.out = "application/base64"

\* ------------------------------------------- the content type override

\* The override the builders below are configured with.
CsvType == "text/csv"

\* {"a":1}
S_json == <<123, 34, 97, 34, 58, 49, 125>>

\* Builders with a contentType override, for two protocols.
OverrideOptions ==
  { Options(p, NoHeaders, NoOpt, Opt(2), "none", CsvType) : p \in {NoProtocol, "socket"} }

\* Plain payloads of several kinds: a JSON-looking string, a number, an
\* object, a buffer, an Error.
OverridePayloads == {Str(S_json), Num(42), Obj([a |-> Num(1)]), Buf(<<97, 98>>), ErrFail}

InitOverride ==
  /\ \E o \in OverrideOptions : /\ ~Construct(o).threw
                                /\ builder = Construct(o).obj
  /\ source = SrcReadable
  /\ payload = Undefined
  /\ op = NewOp
  /\ result = NoSend
  /\ exc = NoError
  /\ explicit = NoOpt
  /\ nSignals = 0
  /\ call = NoCall
  /\ ref = NoRef

NextOverride ==
  \/ \E body \in OverridePayloads : SendValue(body)
  \/ SendValueResume
  \/ SendStream
  \/ Timeout
  \/ \E error \in ErrorValues : EmitError(error)
  \/ \E chunk \in Chunks : EmitData(chunk)
  \/ EmitEnd
  \/ RunImmediate
  \/ SendResume

OverrideSpec == InitOverride /\ [][NextOverride]_vars

\* The content type the envelope announces: its type field, and over http
\* the Content-Type header as well.
EnvelopeTypeIs(type) ==
  /\ result.envelope.type = type
  /\ "headers" \in DOMAIN result.envelope
       => result.envelope.headers["Content-Type"] = type

\* C19: when a contentType override is configured on the builder, the
\* content type of every envelope produced by send equals that override and
\* no sniffing is applied: for a plain payload the body is the payload
\* unchanged (a JSON-looking string is not parsed), and the override
\* determines the type whatever kind of payload is sent.
C19_OverrideDeterminesType ==
  (result.state = "fulfilled" /\ builder.contentTypeOverride # "") =>
    /\ EnvelopeTypeIs(builder.contentTypeOverride)
    /\ payload.k # "stream" => EnvelopeBody = payload

\* ------------------------------------------------------------ JSON.stringify

HexDigit(d) == IF d < 10 THEN 48 + d ELSE 87 + d

\* One character of a string inside its quotes.
QuoteChar(c) ==
  CASE c = 34 -> <<92, 34>>
    [] c = 92 -> <<92, 92>>
    [] c = 8 -> <<92, 98>>
    [] c = 9 -> <<92, 116>>
    [] c = 10 -> <<92, 110>>
    [] c = 12 -> <<92, 102>>
    [] c = 13 -> <<92, 114>>
    [] c < 32 -> <<92, 117, 48, 48, HexDigit(c \div 16), HexDigit(c % 16)>>
    [] OTHER -> <<c>>

RECURSIVE QuoteChars(_)
QuoteChars(s) == IF s = <<>> THEN <<>> ELSE QuoteChar(Head(s)) \o QuoteChars(Tail(s))

Quote(s) == <<34>> \o QuoteChars(s) \o <<34>>

RECURSIVE JsonStringify(_)
RECURSIVE StringifyElements(_)
RECURSIVE StringifyMembers(_, _)

\* The elements of an array, separated by commas.
StringifyElements(elements) ==
  IF elements = <<>> THEN <<>>
  ELSE IF Len(elements) = 1 THEN JsonStringify(elements[1])
  ELSE JsonStringify(Head(elements)) \o <<44>> \o StringifyElements(Tail(elements))

\* The members of an object whose keys are strings of code points, for the
\* keys still to write.
StringifyMembers(props, keys) ==
  IF keys = {} THEN <<>>
  ELSE LET key == CHOOSE k \in keys : TRUE
       IN  Quote(key) \o <<58>> \o JsonStringify(props[key])
             \o (IF keys = {key} THEN <<>> ELSE <<44>>)
             \o StringifyMembers(props, keys \ {key})

\* JSON.stringify(val) of a JSON-representable value without cycles.
JsonStringify(val) ==
  CASE val.k = "null" -> <<110, 117, 108, 108>>
    [] val.k \in {"boolean", "number"} -> String(val).v
    [] val.k = "string" -> Quote(val.v)
    [] val.k = "array" -> <<91>> \o StringifyElements(val.v) \o <<93>>
    [] val.k = "object" -> <<123>> \o StringifyMembers(val.v, DOMAIN val.v) \o <<125>>

RECURSIVE StructurallyEqual(_, _)
\* Deep equality of two JSON values: numbers by their decimal text, arrays
\* element by element, objects key by key.
StructurallyEqual(a, b) ==
  /\ a.k = b.k
  /\ CASE a.k = "number" -> String(a) = String(b)
       [] a.k = "array" ->
            /\ Len(a.v) = Len(b.v)
            /\ \A i \in 1 .. Len(a.v) : StructurallyEqual(a.v[i], b.v[i])
       [] a.k = "object" ->
            /\ DOMAIN a.v = DOMAIN b.v
            /\ \A key \in DOMAIN a.v : StructurallyEqual(a.v[key], b.v[key])
       [] OTHER -> a = b

\* ------------------------------------------------------------- round trips

\* Arrays hold up to this many elements, objects up to this many members.
MaxArrayLen == 2

\* null, booleans, integers and a fraction, and strings: empty, with a quote
\* and a backslash, with a newline and a control character, and {"a":1}.
JsonAtoms ==
  { Null, Bool(TRUE), Bool(FALSE), Num(0), Num(-7), Half(1),
    Str(<<>>), Str(<<34, 92>>), Str(<<10, 1>>), Str(S_json) }

\* Keys: a, the empty key, and a quote.
JsonKeys == {<<97>>, <<>>, <<34>>}

\* The arrays and objects over a set of values.
Structures(values) ==
  { Arr(elements) : elements \in UNION { [1 .. n -> values] : n \in 0 .. MaxArrayLen } }
    \cup
  { Obj(props) :
      props \in UNION { [keys -> values] :
                          keys \in { K \in SUBSET JsonKeys : Cardinality(K) <= MaxArrayLen } } }

FlatStructures == Structures(JsonAtoms)

\* Structures that hold one structure, alone or beside an atom.
NestedStructures ==
  { Arr(<<x>>) : x \in FlatStructures }
    \cup { Arr(<<Num(42), x>>) : x \in FlatStructures }
    \cup { Obj(<<97>> :> x) : x \in FlatStructures }
    \cup { Obj(<<97>> :> Arr(<<Obj(<<98>> :> x)>>)) : x \in JsonAtoms }

PlainStructured == FlatStructures \cup NestedStructures

\* prepareBodyMetadata(JSON.stringify(x)), once in a behavior.
RoundTrip(x) ==
  /\ call = NoCall
  /\ call' = [ fn |-> "roundTrip", threw |-> FALSE, arg |-> x,
               text |-> JsonStringify(x),
               out |-> prepareBodyMetadata(Str(JsonStringify(x)), "") ]
  /\ UNCHANGED <<builder, payload, source, op, result, exc, explicit, nSignals, ref>>

NextRoundTrip == \E x \in PlainStructured : RoundTrip(x)

RoundTripSpec == InitHelper /\ [][NextRoundTrip]_vars

\* C21: for every plain-structured value x (object or array of
\* JSON-representable values, without cycles),
\* prepareBodyMetadata(JSON.stringify(x)) returns type application/json with
\* a body structurally equal to x.
C21_StringifyRoundTrip ==
  call.fn = "roundTrip" =>
    /\ ~Threw(call.out)
    /\ call.out.type = "application/json"
    /\ StructurallyEqual(call.out.body, call.arg)

\* {"a":[{"b":"\n\u0001"}]} came back as the nested object it was made from.
C21_Witness ==
  /\ call.fn = "roundTrip"
  /\ call.arg = Obj(<<97>> :> Arr(<<Obj(<<98>> :> Str(<<10, 1>>))>>))
  /\ call.text = <<123, 34, 97, 34, 58, 91, 123, 34, 98, 34, 58, 34, 92, 110,
                   92, 117, 48, 48, 48, 49, 34, 125, 93, 125>>
  /\ call.out.body = call.arg

\* ------------------------------------------------------------- idempotence

\* An error that carries a bigint beside its stack.
ErrBig == ErrorValue(S_Error, [stack |-> S_stack, big |-> BigInt(1)])

\* The values normalized twice: every kind that is no string, an error with a
\* bigint, and the strings of every sniffed class.
TwiceValues == OtherValues \cup {ErrBig} \cup { Str(content) : content \in SniffStrings }

\* The two normalizations: the second takes the body of the first.
Twice(v, first) ==
  [ fn |-> "normalizeTwice", threw |-> Threw(first), arg |-> v, first |-> first,
    second |-> IF Threw(first) THEN first ELSE prepareBodyMetadata(first.body, "") ]

\* prepareBodyMetadata(prepareBodyMetadata(v).body), once in a behavior.
NormalizeTwice(v) ==
  /\ call = NoCall
  /\ call' = Twice(v, prepareBodyMetadata(v, ""))
  /\ UNCHANGED <<builder, payload, source, op, result, exc, explicit, nSignals, ref>>

NextTwice == \E v \in TwiceValues : NormalizeTwice(v)

TwiceSpec == InitHelper /\ [][NextTwice]_vars

\* The first normalization answered with a buffer, an array or an object.
CanonicalBody ==
  /\ call.fn = "normalizeTwice"
  /\ ~call.threw
  /\ call.first.body.k \in {"buffer", "array", "object"}

\* C22: for every value v whose normalized body is a buffer, an array or a
\* plain object, normalizing that body again yields the same (type, body)
\* pair as the first normalization.
C22_NormalizeIdempotent == CanonicalBody => call.second = call.first

\* ------------------------------------------------------- headers(headers)

\* The method ResponseBuilder.prototype.headers: merges the given entries
\* over the builder's and returns the builder.
headers(b, given) == [b EXCEPT !.headers = Spread(@, given)]

TypeErrorNotAFunction == ErrObj("notAFunction", "TypeError", TRUE, "")

\* The expression  builder.headers(given): the property is looked up on the
\* instance first, where the constructor stored the headers object, and only
\* then on the prototype; calling a value that is no function throws.
callHeaders(b, given) ==
  IF "headers" \in DOMAIN b
    THEN [threw |-> TRUE, error |-> TypeErrorNotAFunction, builder |-> b]
    ELSE [threw |-> FALSE, error |-> NoError, builder |-> headers(b, given)]

\* The header objects handed to headers(): one entry, and one that replaces
\* the entry header("X-Api", "2") sets.
HeaderObjects == { ("X-Request-ID" :> "req-456"), ("X-Api" :> "3") }

\* builder.headers(given) is evaluated.
Headers(given) ==
  /\ result.state # "pending"
  /\ call' = [ fn |-> "headers", threw |-> callHeaders(builder, given).threw,
               arg |-> given ]
  /\ builder' = callHeaders(builder, given).builder
  /\ UNCHANGED <<payload, source, op, result, exc, explicit, nSignals, ref>>

\* Builders over http, made and then used through headers, header and send.
NextHeaders ==
  \/ \E o \in ConstructOptions : New(o)
  \/ \E given \in HeaderObjects : Headers(given)
  \/ Header("X-Api", "2")
  \/ SendValue(Num(42))
  \/ SendValueResume

HeadersSpec == InitConstruct /\ [][NextHeaders]_vars

\* C23: headers(h) called on a constructed builder merges the entries of h
\* into the builder's headers (keys of h win over existing ones) and returns
\* the same builder for chaining, so that the HTTP envelope of a subsequent
\* send contains those headers.
C23_HeadersMerges ==
  /\ [](call.fn = "headers" =>
          /\ ~call.threw
          /\ \A name \in DOMAIN call.arg :
               name \in DOMAIN builder.headers /\ builder.headers[name] = call.arg[name])
  /\ [][ ( /\ call.fn = "headers"
           /\ result.state = "pending"
           /\ result'.state = "fulfilled"
           /\ "headers" \in DOMAIN result'.envelope )
         => \A name \in DOMAIN call.arg : result'.envelope.headers[name] = call.arg[name] ]_vars

\* ------------------------------------------------- two calls on one builder

\* In this specification payload, op, result and ref hold one value for each
\* of two send calls on the same builder, and ref[i] is the sequence of the
\* signals call i's own source and timer have delivered.
Calls == {1, 2}

\* The signals of both sources together.
MaxPairSignals == 3

PairOptions == Options(NoProtocol, NoHeaders, NoOpt, Opt(2), "none", "")

PairChunks == {Buf(<<97>>), Buf(<<98, 99>>)}

PairErrors == {E_ENOENT, E_PLAIN}

PairBodies == {Num(42), ErrFail}

\* What a source or a timer can deliver to its consume operation.
Signals ==
  { [kind |-> "timeout"], [kind |-> "end"], [kind |-> "immediate"] }
    \cup { [kind |-> "data", chunk |-> chunk] : chunk \in PairChunks }
    \cup { [kind |-> "error", error |-> error] : error \in PairErrors }

\* The signal can happen now for the operation o.
Deliverable(o, sig) ==
  CASE sig.kind = "timeout" -> o.timer = "armed"
    [] sig.kind = "immediate" -> o.immediates # <<>>
    [] OTHER -> o.phase = "active"

\* The operation o and the builder after the signal: the timer's callback,
\* the queued reject, or the listener for the event if it is still attached.
Deliver(o, b, stream, sig) ==
  CASE sig.kind = "timeout" -> timeoutHandler([o EXCEPT !.timer = "fired"], b, stream)
    [] sig.kind = "immediate" ->
         Step(Reject([o EXCEPT !.immediates = Tail(@)], Head(o.immediates)), b)
    [] sig.kind \notin o.listeners -> Step(o, b)
    [] sig.kind = "error" -> errorHandler(o, b, stream, sig.error)
    [] sig.kind = "data" -> dataHandler(o, b, stream, sig.chunk)
    [] sig.kind = "end" -> endHandler(o, b, stream)

InitPair ==
  /\ builder = Construct(PairOptions).obj
  /\ source = SrcReadable
  /\ payload = [i \in Calls |-> Undefined]
  /\ op = [i \in Calls |-> NewOp]
  /\ result = [i \in Calls |-> NoSend]
  /\ exc = NoError
  /\ explicit = NoOpt
  /\ nSignals = 0
  /\ call = NoCall
  /\ ref = [i \in Calls |-> <<>>]

\* status(code), before the first send.
PairStatus(code) ==
  /\ \A i \in Calls : result[i].state = "none"
  /\ builder' = status(builder, code).builder
  /\ explicit' = Opt(code.v)
  /\ UNCHANGED <<payload, source, op, result, exc, nSignals, call, ref>>

\* Call i is send(body) for a body that is no stream, up to its await.
PairSendValue(i, body) ==
  /\ result[i].state = "none"
  /\ builder' = handleNonStreamResponse(builder, body).builder
  /\ result' = [result EXCEPT ![i] = awaitingValue(handleNonStreamResponse(builder, body))]
  /\ payload' = [payload EXCEPT ![i] = body]
  /\ UNCHANGED <<source, op, exc, explicit, nSignals, call, ref>>

\* Call i is send(stream), up to its await.
PairSendStream(i) ==
  /\ result[i].state = "none"
  /\ op' = [op EXCEPT ![i] = handleStreamResponse(@)]
  /\ payload' = [payload EXCEPT ![i] = [k |-> "stream", v |-> source]]
  /\ result' = [result EXCEPT ![i] = [NoSend EXCEPT !.state = "pending", !.awaits = "stream"]]
  /\ UNCHANGED <<builder, source, exc, explicit, nSignals, call, ref>>

\* The source or the timer of call i delivers a signal.
Signal(i, sig) ==
  /\ Deliverable(op[i], sig)
  /\ nSignals < MaxPairSignals \/ sig.kind \in {"timeout", "immediate"}
  /\ nSignals' = IF sig.kind \in {"timeout", "immediate"} THEN nSignals ELSE nSignals + 1
  /\ op' = [op EXCEPT ![i] = Deliver(@, builder, source, sig).op]
  /\ builder' = Deliver(op[i], builder, source, sig).builder
  /\ ref' = [ref EXCEPT ![i] = Append(@, sig)]
  /\ UNCHANGED <<payload, source, result, exc, explicit, call>>

\* Call i resumes after its await.
PairSendResume(i) ==
  /\ result[i].state = "pending"
  /\ result[i].awaits = "value" \/ op[i].promise.state # "pending"
  /\ result' =
       [ result EXCEPT ![i] =
           IF @.awaits = "value" THEN sendAfterAwait(builder, @.failure, @.processed)
           ELSE sendAfterAwait(builder,
                               IF op[i].promise.state = "rejected"
                                 THEN op[i].promise.error ELSE NoError,
                               op[i].promise.value) ]
  /\ UNCHANGED <<payload, builder, source, op, exc, explicit, nSignals, call, ref>>

NextPair ==
  \/ PairStatus(Num(404))
  \/ \E i \in Calls, body \in PairBodies : PairSendValue(i, body)
  \/ \E i \in Calls : PairSendStream(i)
  \/ \E i \in Calls, sig \in Signals : Signal(i, sig)
  \/ \E i \in Calls : PairSendResume(i)

PairSpec == InitPair /\ [][NextPair]_vars

ReplayStep(prev, sig) == Deliver(prev.op, prev.builder, SrcReadable, sig)

RECURSIVE Replay(_)
\* A consume operation run alone on a builder of its own over a sequence of
\* signals.
Replay(sigs) ==
  IF sigs = <<>> THEN Step(handleStreamResponse(NewOp), Construct(PairOptions).obj)
  ELSE ReplayStep(Replay(SubSeq(sigs, 1, Len(sigs) - 1)), sigs[Len(sigs)])

\* C24: two consume operations running concurrently on independent sources
\* do not interfere: under every interleaving of their signals, each
\* operation's accumulated chunks, byte total, size-limit check, timer and
\* outcome are what the signals of its own source alone produce.
C24_OperationsIndependent ==
  \A i \in Calls : op[i].phase = "active" => op[i] = Replay(ref[i]).op

\* Both operations ran at once: the first failed on ENOENT, the second
\* resolved with the byte it received.
C24_Witness ==
  /\ op[1].promise.state = "rejected"
  /\ op[1].promise.error.id = "E_ENOENT"
  /\ op[2].promise.state = "fulfilled"
  /\ op[2].promise.value.body = Buf(<<97>>)
  /\ builder.statusCode = 404
  /\ nSignals = 3

\* The builder as the caller configured it: constructed, then status(code) if
\* the caller set one.
Configured ==
  IF explicit.has THEN status(Construct(PairOptions).obj, Num(explicit.val)).builder
  ELSE Construct(PairOptions).obj

\* The statusCode a lone send of call i's payload answers with on the builder
\* as configured, when it resolves.
SoloStatus(i) ==
  IF payload[i].k = "stream" THEN Configured.statusCode
  ELSE handleNonStreamResponse(Configured, payload[i]).builder.statusCode

\* C25: a ResponseBuilder holds no state across send calls: for two send
\* calls on the same instance, one after the other or overlapping, the
\* statusCode in the envelope of one call depends only on the status the
\* caller set explicitly and on that call's own payload, never on the payload
\* or stream outcome of the other call.
C25_NoCrossCallState ==
  \A i \in Calls :
    result[i].state = "fulfilled" => result[i].envelope.statusCode = SoloStatus(i)

\* ------------------------------------------------- the protocol responders

\* A variant in which the caller's options come last and win.
responderOptions_OptionsWin(options, protocolValue) ==
  IF options.protocol # NoProtocol THEN options
  ELSE [options EXCEPT !.protocol = protocolValue]

\* { ...options, protocol: protocolValue }
responderOptions(options, protocolValue) == [options EXCEPT !.protocol = protocolValue]

InvalidOptionError == ErrObj("invalidOption", "Error", TRUE, "")

\* The catch of a responder: the failure gets the method and the protocol.
responderCatch(error, methodName, protocolValue) ==
  Spread(error, [method |-> methodName, protocol |-> protocolValue])

\* What the responder's promise becomes when send's promise settles.
responderSettle(sent, methodName, protocolValue) ==
  IF sent.state = "rejected"
    THEN [sent EXCEPT !.error = responderCatch(@, methodName, protocolValue)]
    ELSE sent

\* The options handed to a responder: no protocol, an unknown one and another
\* responder's.
ResponderOptions ==
  { Options(p, NoHeaders, NoOpt, Opt(2), "none", "") : p \in {NoProtocol, "ftp", "ipc"} }

TheStream == [k |-> "stream", v |-> SrcReadable]

\* Bodies: a string, a number, null, an object, an Error, and a stream.
ResponderBodies ==
  {Str(S_test), Num(42), Null, Obj([foo |-> Str(S_test)]), ErrFail, TheStream}

\* The builder a responder made and set the status of.
responderHandler(options, protocolValue, statusCode) ==
  status(Construct(responderOptions(options, protocolValue)).obj, Num(statusCode)).builder

\* protocolValueResponder[methodName](body, options), up to the await of
\* send: the handler is constructed, its status set, and the body processed
\* or the stream's consume operation started.
Respond(protocolValue, methodName, body, options) ==
  /\ call = NoCall
  /\ call' = [ fn |-> "responder", threw |-> FALSE, protocol |-> protocolValue,
               method |-> methodName, arg |-> options ]
  /\ payload' = body
  /\ IF Construct(responderOptions(options, protocolValue)).threw
       THEN /\ result' = [ NoSend EXCEPT
                             !.state = "rejected",
                             !.error = responderCatch(InvalidOptionError, methodName,
                                                      protocolValue) ]
            /\ UNCHANGED <<builder, op>>
     ELSE IF body.k = "stream"
       THEN /\ builder' = responderHandler(options, protocolValue, STATUS_CODES[methodName])
            /\ op' = handleStreamResponse(op)
            /\ result' = [NoSend EXCEPT !.state = "pending", !.awaits = "stream"]
     ELSE /\ builder' = handleNonStreamResponse(
                          responderHandler(options, protocolValue, STATUS_CODES[methodName]),
                          body).builder
          /\ result' = awaitingValue(
                         handleNonStreamResponse(
                           responderHandler(options, protocolValue, STATUS_CODES[methodName]),
                           body))
          /\ op' = op
  /\ UNCHANGED <<source, exc, explicit, nSignals, ref>>

\* send settles and the responder returns its envelope or rethrows.
ResponderResume ==
  /\ call.fn = "responder"
  /\ result.state = "pending"
  /\ result.awaits = "value" \/ op.promise.state # "pending"
  /\ result' =
       responderSettle(
         IF result.awaits = "value"
           THEN sendAfterAwait(builder, result.failure, result.processed)
           ELSE sendAfterAwait(builder,
                               IF op.promise.state = "rejected" THEN op.promise.error
                               ELSE NoError,
                               op.promise.value),
         call.method, call.protocol)
  /\ UNCHANGED <<payload, builder, source, op, exc, explicit, nSignals, call, ref>>

NextResponder ==
  \/ \E protocolValue \in PROTOCOLS, methodName \in DOMAIN STATUS_CODES,
        body \in ResponderBodies, options \in ResponderOptions :
       Respond(protocolValue, methodName, body, options)
  \/ Timeout
  \/ \E error \in ErrorValues : EmitError(error)
  \/ \E chunk \in PairChunks : EmitData(chunk)
  \/ EmitEnd
  \/ RunImmediate
  \/ ResponderResume

ResponderSpec == InitConstruct /\ [][NextResponder]_vars

\* The envelope has the shape of the protocol.
InShapeOf(protocolValue, envelope) ==
  CASE protocolValue = "http" ->
         /\ {"statusCode", "headers", "body"} \subseteq DOMAIN envelope
         /\ {"message", "timestamp"} \cap DOMAIN envelope = {}
    [] protocolValue = "ipc" ->
         /\ {"statusCode", "body", "type", "timestamp"} \subseteq DOMAIN envelope
         /\ {"message", "headers"} \cap DOMAIN envelope = {}
    [] protocolValue = "socket" ->
         /\ {"statusCode", "message", "type", "timestamp"} \subseteq DOMAIN envelope
         /\ {"body", "headers"} \cap DOMAIN envelope = {}

MaxDestroyCalls == 2

\* A stream object as destroyStream sees it: what it is an instance of (file
\* and zlib streams are EventEmitters, other objects may be), how
\* its destroy and close methods behave ("ok", "throwsError", or "throwsNull"
\* for a throw of null or undefined; "absent" when there is no such method),
\* whether it is an EventEmitter with removeAllListeners, and what has been
\* done to it so far.
StreamObject(class, destroy, close, emitter, destroyed) ==
  [ class |-> class, destroy |-> destroy, close |-> close, emitter |-> emitter,
    destroyed |-> destroyed, errorListeners |-> IF emitter THEN 1 ELSE 0,
    openListeners |-> 0, destroyCalls |-> 0, closeCalls |-> 0 ]

MethodKinds == {"ok", "throwsError", "throwsNull"}

StreamObjects ==
  { s \in { StreamObject(class, destroy, close, emitter, destroyed) :
              class \in {"ReadStream", "Zlib", "Object"},
              destroy \in MethodKinds \cup {"absent"},
              close \in MethodKinds \cup {"absent"},
              emitter \in BOOLEAN, destroyed \in BOOLEAN } :
      s.class = "Object" \/ s.emitter }

NothingThrown == "nothing"

Running(s) == [stream |-> s, thrown |-> NothingThrown]

\* One statement of the try block: skipped once something was thrown.
\* stream.removeAllListeners('error')
RemoveErrorListeners(t, suppressErrors) ==
  IF t.thrown = NothingThrown /\ suppressErrors /\ t.stream.emitter
    THEN [t EXCEPT !.stream.errorListeners = 0]
    ELSE t

\* stream.destroy()
CallDestroy(t) ==
  IF t.thrown # NothingThrown \/ t.stream.destroy = "absent" THEN t
  ELSE IF t.stream.destroy = "ok"
    THEN [t EXCEPT !.stream.destroyCalls = @ + 1, !.stream.destroyed = TRUE]
  ELSE [t EXCEPT !.stream.destroyCalls = @ + 1, !.thrown = t.stream.destroy]

\* stream.close()
CallClose(t) ==
  IF t.thrown # NothingThrown \/ t.stream.close = "absent" THEN t
  ELSE IF t.stream.close = "ok" THEN [t EXCEPT !.stream.closeCalls = @ + 1]
  ELSE [t EXCEPT !.stream.closeCalls = @ + 1, !.thrown = t.stream.close]

\* A file stream that is open is closed later, from an 'open' listener.
CloseOnOpen(t) ==
  IF t.thrown # NothingThrown \/ t.stream.close = "absent" \/ ~t.stream.emitter THEN t
  ELSE [t EXCEPT !.stream.openListeners = @ + 1]

\* stream.on('error', () => {})
SuppressLater(t, suppressErrors) ==
  IF t.thrown = NothingThrown /\ suppressErrors /\ t.stream.emitter
    THEN [t EXCEPT !.stream.errorListeners = @ + 1]
    ELSE t

\* The first destruction method whose condition holds, run.
DestructionMethod(s, suppressErrors) ==
  IF s.class = "ReadStream"
    THEN CloseOnOpen(CallDestroy(RemoveErrorListeners(Running(s), suppressErrors)))
  ELSE IF s.class = "Zlib"
    THEN CallClose(CallDestroy(RemoveErrorListeners(Running(s), suppressErrors)))
  ELSE IF s.destroy # "absent"
    THEN CallDestroy(RemoveErrorListeners(Running(s), suppressErrors))
  ELSE Running(s)

\* The catch block: onError is "none", "returns" or "throws"; err.message of
\* null or undefined is a TypeError.
DestroyCatch(t, suppressErrors, onError) ==
  IF t.thrown = NothingThrown THEN [threw |-> FALSE, returned |-> TRUE, stream |-> t.stream]
  ELSE IF onError # "none"
    THEN [threw |-> onError = "throws", returned |-> onError # "throws", stream |-> t.stream]
  ELSE IF ~suppressErrors
    THEN [ threw |-> t.thrown = "throwsNull", returned |-> t.thrown # "throwsNull",
           stream |-> t.stream ]
  ELSE [threw |-> FALSE, returned |-> TRUE, stream |-> t.stream]

\* ResponseHelper.destroyStream(stream, suppressErrors, onError) on a stream
\* object.
destroyStreamObject(s, suppressErrors, onError) ==
  DestroyCatch(SuppressLater(DestructionMethod(s, suppressErrors), suppressErrors),
               suppressErrors, onError)

InitDestroy ==
  /\ builder = Construct(Options(NoProtocol, NoHeaders, NoOpt, NoOpt, "none", "")).obj
  /\ source \in StreamObjects
  /\ payload = Undefined
  /\ op = NewOp
  /\ result = NoSend
  /\ exc = NoError
  /\ explicit = NoOpt
  /\ nSignals = 0
  /\ call = NoCall
  /\ ref = NoRef

\* destroyStream is called on the stream; nSignals counts the calls.
Destroy(suppressErrors, onError) ==
  /\ nSignals < MaxDestroyCalls
  /\ nSignals' = nSignals + 1
  /\ source' = destroyStreamObject(source, suppressErrors, onError).stream
  /\ call' = [ fn |-> "destroyStream",
               threw |-> destroyStreamObject(source, suppressErrors, onError).threw,
               returned |-> destroyStreamObject(source, suppressErrors, onError).returned,
               suppressErrors |-> suppressErrors, onError |-> onError ]
  /\ UNCHANGED <<builder, payload, op, result, exc, explicit, ref>>

NextDestroy ==
  \E suppressErrors \in BOOLEAN, onError \in {"none", "returns", "throws"} :
    Destroy(suppressErrors, onError)

DestroySpec == InitDestroy /\ [][NextDestroy]_vars

\* C27: destroyStream never throws, not when the stream's destroy or close
\* throws, not when the stream is already destroyed, and not when it is
\* called a second time on the same stream, and it always returns the stream
\* it was given.
C27_DestroyNeverThrows ==
  call.fn = "destroyStream" => ~call.threw /\ call.returned

\* ------------------------------------- the ResponseHandler of src/main.js

\* ResponseUtils.detectStreamType(stream): the classes of the map are looked
\* up in zlib,  stream instanceof Zlib[className].  The four of the first
\* entry exist; Zlib.ReadStream of the second is undefined, and instanceof
\* with an undefined right-hand side throws a TypeError: a stream that is
\* none of Gzip, Deflate, Gunzip, Inflate makes the function throw.
LegacyGzipClasses == {"Gzip", "Deflate", "Gunzip", "Inflate"}

detectStreamType(stream) ==
  IF stream.zlib \in LegacyGzipClasses \/ stream.ctor \in LegacyGzipClasses
    THEN [threw |-> FALSE, type |-> "application/gzip"]
    ELSE [threw |-> TRUE, type |-> ""]

\* ResponseUtils.destroyStream(stream, suppressErrors) as the operation sees
\* it: with suppressErrors, removeAllListeners('error') on an EventEmitter.
legacyDestroyStream(o, stream, suppressErrors) ==
  [ o EXCEPT !.destroyCalls = @ + 1,
             !.listeners = IF suppressErrors /\ stream.emitter
                             THEN @ \ {"error"} ELSE @ ]

\* new ResponseHandler(options): no option is validated.
legacyConstructor(options) ==
  [ protocol |-> IF options.protocol \in {NoProtocol, ""} THEN "http"
                 ELSE options.protocol,
    statusCode |-> STATUS_CODES.ok,
    headers |-> options.headers,
    streamTimeout |-> OrDefault(options.streamTimeout, DEFAULT_STREAM_TIMEOUT),
    maxStreamSize |-> OrDefault(options.maxStreamSize, DEFAULT_MAX_STREAM_SIZE),
    customErrorHandler |-> options.errorHandler ]

\* new Error('Stream processing timed out') with code STREAM_TIMEOUT
LegacyTimeoutError == ErrObj("legacyTimeout", "Error", TRUE, "STREAM_TIMEOUT")

\* new Error('Stream size exceeded maximum limit') with code STREAM_SIZE_LIMIT
LegacySizeError == ErrObj("legacySize", "Error", TRUE, "STREAM_SIZE_LIMIT")

\* The plain object  { type, body: error }  the errorHandler rejects with.
LegacyRejection(type, error) ==
  [ErrObj("legacyRejection", "", FALSE, "") EXCEPT !.original = error.id]

\* The setTimeout callback of _handleStreamResponse.
legacyTimeoutHandler(o, b, stream) ==
  Step(Reject(legacyDestroyStream(o, stream, FALSE), LegacyTimeoutError), b)

\* The rest of the errorHandler after the hook: `${error.code}` of null or
\* undefined throws a TypeError out of the listener.
legacyClassify(o, b, error, type) ==
  IF IsNullish(error) THEN Step([o EXCEPT !.escaped = @ + 1], b)
  ELSE Step(Reject(o, LegacyRejection(type, error)),
            [b EXCEPT !.statusCode = IF error.code = "ENOENT"
                                       THEN STATUS_CODES.notFound
                                       ELSE STATUS_CODES.internalServerError])

\* The 'error' listener.  Nothing guards against a second call, the hook is
\* not wrapped in try/catch, and detectStreamType runs before destroyStream.
legacyErrorHandler(o, b, stream, error) ==
  IF detectStreamType(stream).threw
    THEN Step([clearTimeout(o) EXCEPT !.escaped = @ + 1], b)
  ELSE IF b.customErrorHandler = "none"
    THEN legacyClassify(legacyDestroyStream(clearTimeout(o), stream, FALSE), b,
                        error, detectStreamType(stream).type)
  ELSE IF b.customErrorHandler = "returnsReplacement"
    THEN Step(Reject([legacyDestroyStream(clearTimeout(o), stream, FALSE)
                        EXCEPT !.hookCalls = @ + 1], E_CUSTOM), b)
  ELSE IF b.customErrorHandler = "throws"
    THEN Step([legacyDestroyStream(clearTimeout(o), stream, FALSE)
                 EXCEPT !.hookCalls = @ + 1, !.escaped = @ + 1], b)
  ELSE legacyClassify([legacyDestroyStream(clearTimeout(o), stream, FALSE)
                         EXCEPT !.hookCalls = @ + 1], b,
                      error, detectStreamType(stream).type)

\* The 'data' listener: the chunk that crosses the limit is counted, not kept.
legacyDataHandler(o, b, stream, chunk) ==
  IF o.totalBytes + Len(ToBuffer(chunk).v) > b.maxStreamSize
    THEN Step(Reject(legacyDestroyStream(
                       [o EXCEPT !.totalBytes = @ + Len(ToBuffer(chunk).v)],
                       stream, FALSE),
                     LegacySizeError), b)
    ELSE Step([o EXCEPT !.totalBytes = @ + Len(ToBuffer(chunk).v),
                        !.chunks = Append(@, ToBuffer(chunk))], b)

\* The listeners left after the 'end' listener's destroyStream(stream, true)
\* and its removeListener calls for error and data.
legacyEnded(o, stream) ==
  cleanupStreamListeners(legacyDestroyStream(clearTimeout(o), stream, TRUE),
                         {"error", "data"})

\* The 'end' listener: the object literal given to resolve evaluates
\* detectStreamType(stream); when that throws, resolve is not called.
legacyEndHandler(o, b, stream) ==
  IF detectStreamType(stream).threw
    THEN Step([legacyEnded(o, stream) EXCEPT !.escaped = @ + 1], b)
    ELSE Step(Resolve(legacyEnded(o, stream),
                      [ body |-> BufferConcat(o.chunks),
                        type |-> detectStreamType(stream).type,
                        size |-> Num(o.totalBytes) ]), b)

\* _handleStreamResponse(stream): the promise's executor arms the timer and
\* attaches the three listeners.
legacyHandleStreamResponse(o) ==
  [o EXCEPT !.phase = "active", !.timer = "armed",
            !.listeners = {"error", "data", "end"}]

\* A property read of the promise _processBody returned: processedBody.type
\* and processedBody.body are undefined.
UndefinedType == "(undefined)"

\* The formatters applied to the promise.  JSON.stringify(undefined) is
\* undefined.
legacyFormat(b) ==
  CASE b.protocol = "http" ->
         [ statusCode |-> b.statusCode,
           headers |-> Spread("Content-Type" :> UndefinedType, b.headers),
           body |-> Undefined ]
    [] b.protocol = "ipc" ->
         [ statusCode |-> b.statusCode, body |-> Undefined,
           type |-> UndefinedType ]
    [] b.protocol = "socket" ->
         [ statusCode |-> b.statusCode, message |-> Undefined,
           type |-> UndefinedType ]

\* send(stream): a synchronous function.  What it returns is no promise but
\* the formatter's object (state "returned"), or it throws (state "threw").
legacySend(b) ==
  IF b.protocol \notin PROTOCOLS
    THEN [NoSend EXCEPT !.state = "threw", !.error = UnsupportedProtocolError]
    ELSE [NoSend EXCEPT !.state = "returned", !.envelope = legacyFormat(b)]

LegacyProtocols == {NoProtocol, "ipc", "socket", "ftp"}

LegacySizes == {NoOpt, Opt(0), Opt(2)}

LegacyOptions ==
  { Options(p, NoHeaders, NoOpt, m, h, "") :
      p \in LegacyProtocols, m \in LegacySizes, h \in HookKinds }

LegacySources == {SrcGzip, SrcReadStream, SrcPlain}

LegacyErrors == {E_ENOENT, E_PLAIN, V_NULL}

InitLegacy ==
  /\ \E o \in LegacyOptions : builder = legacyConstructor(o)
  /\ source \in LegacySources
  /\ payload = Undefined
  /\ op = NewOp
  /\ result = NoSend
  /\ exc = NoError
  /\ explicit = NoOpt
  /\ nSignals = 0
  /\ call = NoCall
  /\ ref = NoRef

\* handler.send(stream)
LegacySend ==
  /\ op.phase = "idle"
  /\ op' = legacyHandleStreamResponse(op)
  /\ payload' = [k |-> "stream", v |-> source]
  /\ result' = legacySend(builder)
  /\ UNCHANGED <<builder, source, exc, explicit, nSignals, call, ref>>

LegacyTimeout ==
  /\ op.timer = "armed"
  /\ LET s == legacyTimeoutHandler([op EXCEPT !.timer = "fired"], builder, source)
     IN  op' = s.op /\ builder' = s.builder
  /\ ref' = Observe(ref, builder.maxStreamSize, "timeout", Buf(<<>>), NoError)
  /\ UNCHANGED <<payload, source, result, exc, explicit, nSignals, call>>

LegacyEmitError(error) ==
  /\ op.phase = "active"
  /\ nSignals < MaxSignals
  /\ nSignals' = nSignals + 1
  /\ LET s == IF "error" \in op.listeners
                THEN legacyErrorHandler(op, builder, source, error)
                ELSE Step(op, builder)
     IN  op' = s.op /\ builder' = s.builder
  /\ ref' = Observe(ref, builder.maxStreamSize, "error", Buf(<<>>), error)
  /\ UNCHANGED <<payload, source, result, exc, explicit, call>>

LegacyEmitData(chunk) ==
  /\ op.phase = "active"
  /\ nSignals < MaxSignals
  /\ nSignals' = nSignals + 1
  /\ LET s == IF "data" \in op.listeners
                THEN legacyDataHandler(op, builder, source, chunk)
                ELSE Step(op, builder)
     IN  op' = s.op /\ builder' = s.builder
  /\ ref' = Observe(ref, builder.maxStreamSize, "data", chunk, NoError)
  /\ UNCHANGED <<payload, source, result, exc, explicit, call>>

LegacyEmitEnd ==
  /\ op.phase = "active"
  /\ nSignals < MaxSignals
  /\ nSignals' = nSignals + 1
  /\ LET s == IF "end" \in op.listeners
                THEN legacyEndHandler(op, builder, source)
                ELSE Step(op, builder)
     IN  op' = s.op /\ builder' = s.builder
  /\ ref' = Observe(ref, builder.maxStreamSize, "end", Buf(<<>>), NoError)
  /\ UNCHANGED <<payload, source, result, exc, explicit, call>>

NextLegacy ==
  \/ LegacySend
  \/ LegacyTimeout
  \/ \E error \in LegacyErrors : LegacyEmitError(error)
  \/ \E chunk \in PairChunks : LegacyEmitData(chunk)
  \/ LegacyEmitEnd

LegacySpec == InitLegacy /\ [][NextLegacy]_vars

\* C28: once the ResponseHandler of src/main.js was handed a stream, what
\* send returned is a promise; it is settled only after the stream ended,
\* errored, exceeded the size limit or timed out, and when fulfilled its
\* envelope carries the bytes buffered from the stream.
C28_LegacySendReturnsPromise ==
  payload.k = "stream" =>
    /\ result.state \in {"pending", "fulfilled", "rejected"}
    /\ result.state # "pending" => ref.terminal # "none"
    /\ result.state = "fulfilled" =>
         /\ "body" \in DOMAIN result.envelope
         /\ result.envelope.body = Buf(ref.bytes)

\* What holds instead: send has returned (or thrown) before the stream gave
\* any signal, and what it returned carries no data and never changes.
C28_LegacySendIsSynchronous ==
  payload.k = "stream" =>
    /\ result.state \in {"returned", "threw"}
    /\ result.state = "returned" =>
         result.envelope = legacyFormat([builder EXCEPT !.statusCode = STATUS_CODES.ok])

\* ------------------------------------------- what a settled operation left

\* The signal kinds other than the one that settled the operation; a chunk
\* past the size limit is a 'data' signal.
OtherKinds(terminal) ==
  CASE terminal = "timeout" -> {"error", "data", "end"}
    [] terminal = "error" -> {"data", "end"}
    [] terminal = "size" -> {"error", "end"}
    [] terminal = "end" -> {"error", "data"}
    [] OTHER -> {}

\* C29: once a consume operation is settled its timer is cancelled, unless
\* the timer itself settled it, and none of the consumer's listeners for the
\* other signal kinds is attached to the source any more: error, data and
\* end after a timeout, data and end after a source error, error and end
\* after a chunk past the size limit, error and data after end.
C29_SettledDetaches ==
  op.isSettled =>
    /\ ref.terminal \in {"timeout", "error", "size", "end"}
    /\ op.timer = IF ref.terminal = "timeout" THEN "fired" ELSE "cleared"
    /\ op.listeners \cap OtherKinds(ref.terminal) = {}

\* A source error settled an operation on a source without
\* removeAllListeners: only the error listener is left, the timer is cleared.
C29_Witness ==
  /\ op.isSettled
  /\ ref.terminal = "error"
  /\ op.listeners = {"error"}
  /\ op.timer = "cleared"

\* ------------------------------------------ the status of a source error

\* The errorHandler hook, if any, left the source's error in place.
NotReplaced == builder.customErrorHandler \in {"none", "returnsNothing"}

\* The class the claim gives an error value: not found for the code ENOENT,
\* forbidden for EACCES, internal server error for every other.
ClaimedClass ==
  IF ref.error.code = "ENOENT" THEN 404
  ELSE IF ref.error.code = "EACCES" THEN 403
  ELSE 500

Openings ==
  { <<>>, <<60, 63, 120, 109, 108, 32>>, <<60, 63, 88, 77, 76, 32>>,
    <<60, 115, 118, 103, 32>>, <<60>>, <<123>>, <<91>>, <<97, 123>>,
    <<64, 105, 109, 112, 111, 114, 116, 32>> }

Middles ==
  { <<>>, <<34, 97, 34, 58, 49>>, <<49>>, <<81, 81, 61, 61>>, <<120>> }

Closings == { <<>>, <<62>>, <<63, 62>>, <<125>>, <<93>> }

Margins == { <<>>, <<32>> }

OrderStrings ==
  { l \o a \o m \o z \o r :
      l \in Margins, a \in Openings, m \in Middles, z \in Closings, r \in Margins }

NextOrder ==
  \/ \E content \in OrderStrings : Sniff(content)
  \/ \E content \in OrderStrings : Normalize(Str(content), "")

OrderSpec == InitHelper /\ [][NextOrder]_vars

\* The trimmed text is wrapped in {...} or [...] and parses.
IsJsonText(t) == IsBracketed(t) /\ JsonParse(t).ok

\* The type the claimed order gives a trimmed text that one of the first
\* four tests takes, "" when none of them does.
FirstOfFour(t) ==
  IF t = <<>> THEN "text/plain"
  ELSE IF IsJsonText(t) THEN "application/json"
  ELSE IF IsXmlDeclaration(t) THEN "application/xml"
  ELSE IF IsAngleWrapped(t) THEN "text/html"
  ELSE ""

\* C31: the first test that matches decides, in the order empty, JSON, XML,
\* HTML, base64, plain text.  A trimmed string wrapped in {...} or [...]
\* that parses is application/json and the body is the parsed value, not the
\* string; a string that begins with an XML declaration is application/xml
\* although the angle-bracket test matches it too; a base64 string is
\* application/base64 unless an earlier test took it.
C31_FirstMatchWins ==
  /\ (Sniffed /\ FirstOfFour(Trim(call.arg.v)) # "")
       => call.out = FirstOfFour(Trim(call.arg.v))
  /\ (Sniffed /\ FirstOfFour(Trim(call.arg.v)) = "" /\ Base64Conditions(Trim(call.arg.v)))
       => call.out = "application/base64"
  /\ (Normalized /\ FirstOfFour(Trim(call.arg.v)) # "")
       => call.out.type = FirstOfFour(Trim(call.arg.v))
  /\ (Normalized /\ IsJsonText(Trim(call.arg.v)))
       => /\ call.out.body = JsonParse(Trim(call.arg.v)).val
          /\ call.out.body.k \in {"object", "array"}

\* An XML declaration that ends with > was sniffed: the angle-bracket test
\* matches it as well, and the answer is application/xml.
C31_Witness ==
  /\ Sniffed
  /\ IsXmlDeclaration(Trim(call.arg.v))
  /\ IsAngleWrapped(Trim(call.arg.v))
  /\ call.out = "application/xml"

\* The other overlap: a padded [1] was normalized to the parsed array.
C31_WitnessJson ==
  /\ Normalized
  /\ call.arg = Str(<<32, 91, 49, 93, 32>>)
  /\ call.out.type = "application/json"
  /\ call.out.body = Arr(<<Num(1)>>)

\* --------------------------------------------------- plain-text strings

\* prepareBodyMetadata was called with a string and no forceType.
NormalizedString == Normalized /\ call.forceType = "" /\ call.arg.k = "string"

\* C32: for a string classified text/plain the body returned is the trimmed
\* string; a string that is empty after trimming gives text/plain with the
\* body "".
C32_PlainTextTrimmed ==
  /\ (NormalizedString /\ call.out.type = "text/plain")
       => call.out.body = Str(Trim(call.arg.v))
  /\ (NormalizedString /\ Trim(call.arg.v) = <<>>)
       => call.out = [body |-> Str(<<>>), type |-> "text/plain"]

\* What the string handler does: whatever type is detected other than
\* application/json, the body is the string as it was given.
C32_PlainTextAsGiven ==
  (NormalizedString /\ call.out.type # "application/json")
    => call.out.body = call.arg

\* ------------------------------------------- specific before generic tests

\* C33: a string with a more specific signal than the angle-bracket wrap is
\* not taken by the generic HTML test: one that starts with <svg (followed
\* by white space or >) is classified image/svg+xml also when it ends with
\* >, and one with a CSS prefix is classified text/css.
C33_SpecificBeforeGeneric ==
  /\ (Sniffed /\ IsSvg(Trim(call.arg.v))) => call.out = "image/svg+xml"
  /\ (Sniffed /\ IsCss(Trim(call.arg.v))) => call.out = "text/css"

\* What holds instead: the SVG rule decides only for a text that does not
\* end with >; one that does is text/html.  The CSS rule is not affected.
C33_SvgOnlyWhenUnclosed ==
  /\ (Sniffed /\ IsSvg(Trim(call.arg.v)))
       => call.out = IF IsAngleWrapped(Trim(call.arg.v)) THEN "text/html"
                     ELSE "image/svg+xml"
  /\ (Sniffed /\ IsCss(Trim(call.arg.v))) => call.out = "text/css"

\* ------------------------------------------ the headers of the envelope

\* C34: when send answers in the request-response (http) shape, the
\* envelope's headers hold every header configured on the builder with its
\* configured value, and the Content-Type entry is the content type
\* determined for the payload unless the configured headers define
\* Content-Type themselves.
C34_HttpHeaders ==
  [][ ( /\ result.state = "pending"
        /\ result'.state = "fulfilled"
        /\ builder.protocol = "http" )
      => /\ "headers" \in DOMAIN result'.envelope
         /\ \A n \in DOMAIN builder.headers :
              /\ n \in DOMAIN result'.envelope.headers
              /\ result'.envelope.headers[n] = builder.headers[n]
         /\ "Content-Type" \in DOMAIN result'.envelope.headers
         /\ "Content-Type" \notin DOMAIN builder.headers
              => result'.envelope.headers["Content-Type"]
                   = prepareBodyMetadata(payload, builder.contentTypeOverride).type
    ]_vars

\* An http envelope whose Content-Type is the configured text/xml although
\* the payload was determined to be application/json.
C34_Witness ==
  /\ result.state = "fulfilled"
  /\ builder.protocol = "http"
  /\ "Content-Type" \in DOMAIN builder.headers
  /\ "headers" \in DOMAIN result.envelope
  /\ "X-Api" \in DOMAIN result.envelope.headers
  /\ result.envelope.headers["Content-Type"] = "text/xml"
  /\ result.envelope.headers["X-Api"] = "2"
  /\ "type" \in DOMAIN result.envelope
  /\ result.envelope.type = "application/json"

\* ----------------------------------- the legacy handler after settlement

\* C35: in _handleStreamResponse of src/main.js, whatever the interleaving
\* of timeout, error, data and end, the source is released exactly once and
\* no handler acts after the first terminal signal: from that signal on
\* destroyStream has been called once, resolve or reject at most once, and
\* the timer is no longer pending.
C35_LegacyReleasedOnce ==
  /\ op.destroyCalls <= 1
  /\ op.settleCalls <= 1
  /\ ref.terminal # "none" =>
       /\ op.destroyCalls = 1
       /\ op.timer # "armed"

\* What the handlers do instead: none of them checks for an earlier
\* settlement, and only the error and end listeners clear the timer, so after
\* a first terminal signal the timer and the listeners left on the source
\* release and reject again.
C35_LegacyActsAgain ==
  [][ ( /\ ref.terminal # "none"
        /\ op.timer = "armed"
        /\ op'.timer = "fired" )
      => /\ op'.destroyCalls = op.destroyCalls + 1
         /\ op'.settleCalls = op.settleCalls + 1 ]_vars

\* ------------------------------- the legacy handler and plain payloads

\* ToBoolean of a value JSON.parse returns: null, false, 0 and "" are falsy.
\* A number written with a fraction or an exponent is zero when its digits
\* before the exponent are all 0.
ToBoolean(val) ==
  CASE val.k = "null" -> FALSE
    [] val.k = "boolean" -> val.v
    [] val.k = "string" -> val.v # <<>>
    [] val.k = "number" ->
         IF "text" \in DOMAIN val
           THEN \E i \in 1 .. Len(val.text) :
                  /\ val.text[i] \in 49 .. 57
                  /\ \A j \in 1 .. i : val.text[j] \notin {69, 101}
           ELSE val.v # 0
    [] OTHER -> TRUE

\* /^\s*<[\s\S]*>/ on the trimmed text
LegacyIsHtml(t) == Len(t) >= 2 /\ t[1] = 60 /\ \E i \in 2 .. Len(t) : t[i] = 62

\* /^\s*<\?xml/ on the trimmed text
LegacyIsXml(t) == StartsWith(t, <<60, 63, 120, 109, 108>>)

\* [A-Za-z0-9+/]
IsBase64Char(c) == IsDigit(c) \/ (Lower(c) >= 97 /\ Lower(c) <= 122) \/ c \in {43, 47}

\* /^([A-Za-z0-9+/]{4})*([A-Za-z0-9+/]{4}|[A-Za-z0-9+/]{3}=|[A-Za-z0-9+/]{2}==)$/
LegacyIsBase64(t) ==
  /\ Len(t) >= 4
  /\ Len(t) % 4 = 0
  /\ \A i \in 1 .. Len(t) - 2 : IsBase64Char(t[i])
  /\ \/ IsBase64Char(t[Len(t) - 1]) /\ IsBase64Char(t[Len(t)])
     \/ IsBase64Char(t[Len(t) - 1]) /\ t[Len(t)] = 61
     \/ t[Len(t) - 1] = 61 /\ t[Len(t)] = 61

\* The catch block of the string handler: JSON.parse threw.
legacySniff(trimmed) ==
  IF LegacyIsHtml(trimmed) THEN [body |-> Str(trimmed), type |-> "text/html"]
  ELSE IF LegacyIsXml(trimmed) THEN [body |-> Str(trimmed), type |-> "application/xml"]
  ELSE IF LegacyIsBase64(trimmed)
    THEN [body |-> Str(trimmed), type |-> "application/base64"]
  ELSE [body |-> Str(trimmed), type |-> "text/plain"]

\* The string handler given the trimmed text and what JSON.parse made of it:
\* JSON.parse(trimmed) ? { body: JSON.parse(trimmed), ... } : null
legacyStringHandler(trimmed, parsed) ==
  IF parsed.ok
    THEN IF ToBoolean(parsed.val)
           THEN [body |-> parsed.val, type |-> "application/json"]
           ELSE Null
    ELSE legacySniff(trimmed)

\* The handler for typeof 'object'.
legacyObjectHandler(body) ==
  IF body.k = "error" THEN [body |-> body, type |-> "application/json"]
  ELSE IF body.k = "date"
    THEN IF body.valid THEN [body |-> Str(body.v), type |-> "text/plain"]
         ELSE Thrown(RangeErrorInvalidTime)
  ELSE IF body.k = "buffer" THEN [body |-> body, type |-> "application/octet-stream"]
  ELSE IF body.k = "array" THEN [body |-> body, type |-> "application/json"]
  ELSE IF body.k = "map"
    THEN [ body |-> Arr([i \in 1 .. Len(body.v) |-> Arr(body.v[i])]),
           type |-> "application/json" ]
  ELSE IF body.k = "set" THEN [body |-> Arr(body.v), type |-> "application/json"]
  ELSE [body |-> body, type |-> "application/json"]

\* ResponseUtils.determineContentType(body): a {body, type} pair, null, or
\* an exception.  No handler tests for typeof 'bigint' or 'undefined'.
determineContentType(body) ==
  IF body.k \in {"null", "undefined"} THEN [body |-> Str(<<>>), type |-> "text/plain"]
  ELSE IF TypeOf(body) = "string"
    THEN legacyStringHandler(Trim(body.v), JsonParse(Trim(body.v)))
  ELSE IF TypeOf(body) \in {"number", "boolean", "symbol", "function"}
    THEN [body |-> String(body), type |-> "text/plain"]
  ELSE IF TypeOf(body) = "object" THEN legacyObjectHandler(body)
  ELSE [body |-> String(body), type |-> "text/plain"]

\* TypeError: Cannot read properties of null (reading 'type')
TypeErrorReadingNull == ErrObj("readingNull", "TypeError", TRUE, "")

\* TypeError of JSON.stringify: a circular structure or a BigInt.
TypeErrorStringify == ErrObj("stringify", "TypeError", TRUE, "")

\* JSON.stringify(body) in _httpResponse: an Error whose own properties are
\* message and stack, neither enumerable, is written {}.
legacyJson(body) == IF body.k = "error" THEN <<123, 125>> ELSE JsonStringify(body)

\* The formatter applied to what _processBody returned for a plain payload.
legacyFormatValue(b, processedBody) ==
  CASE b.protocol = "http" ->
         [ statusCode |-> b.statusCode,
           headers |-> Spread("Content-Type" :> processedBody.type, b.headers),
           body |-> Str(legacyJson(processedBody.body)) ]
    [] b.protocol = "ipc" ->
         [ statusCode |-> b.statusCode, body |-> processedBody.body,
           type |-> processedBody.type ]
    [] b.protocol = "socket" ->
         [ statusCode |-> b.statusCode, message |-> processedBody.body,
           type |-> processedBody.type ]

\* _handleNonStreamResponse(body) given what determineContentType returned:
\* an Error body sets the status.
legacyHandleNonStreamResponse(b, processed) ==
  IF processed # Null /\ processed.body.k = "error"
    THEN [b EXCEPT !.statusCode = STATUS_CODES.internalServerError]
    ELSE b

\* The rest of send for the handler b as _processBody left it: what send
\* returns (state "returned") or throws (state "threw").
legacySendRest(b, processed) ==
  IF b.protocol \notin PROTOCOLS
    THEN [NoSend EXCEPT !.state = "threw", !.error = UnsupportedProtocolError]
  ELSE IF processed = Null
    THEN [NoSend EXCEPT !.state = "threw", !.error = TypeErrorReadingNull]
  ELSE IF b.protocol = "http" /\ StringifyThrows(processed.body)
    THEN [NoSend EXCEPT !.state = "threw", !.error = TypeErrorStringify]
  ELSE [NoSend EXCEPT !.state = "returned", !.envelope = legacyFormatValue(b, processed)]

\* send(body) for a body without a pipe function, given what
\* determineContentType made of it.
legacySendValue(b, processed) ==
  IF Threw(processed)
    THEN [ handler |-> b,
           result |-> [NoSend EXCEPT !.state = "threw", !.error = processed.threw] ]
    ELSE [ handler |-> legacyHandleNonStreamResponse(b, processed),
           result |-> legacySendRest(legacyHandleNonStreamResponse(b, processed),
                                     processed) ]

\* Strings: the falsy JSON literals 0, false, null, "" and -0, truthy JSON
\* ({"a":1}, 7, true), markup, base64 (QQ==), plain text, with and
\* without white space around them.
LegacyTexts ==
  { <<48>>, <<102, 97, 108, 115, 101>>, <<110, 117, 108, 108>>, <<34, 34>>,
    <<45, 48>>, <<123, 34, 97, 34, 58, 49, 125>>, <<55>>, <<116, 114, 117, 101>>,
    <<60, 112, 62>>, <<60, 63, 120, 109, 108>>, <<81, 81, 61, 61>>, S_test, <<>> }

LegacyStrings == { l \o t \o r : l \in Margins, t \in LegacyTexts, r \in Margins }

\* Values that are no strings.
LegacyValues ==
  { Undefined, Null, Num(0), Num(42), Bool(FALSE), BigInt(10), Sym(<<120>>), ErrFail,
    DateVal(<<50, 48, 50, 52>>), InvalidDate, Arr(<<Num(1)>>), Arr(<<Self>>),
    Arr(<<BigInt(1)>>) }

LegacyBodies == LegacyValues \cup { Str(s) : s \in LegacyStrings }

LegacyValueOptions ==
  { Options(p, NoHeaders, NoOpt, NoOpt, "none", "") : p \in LegacyProtocols }

InitLegacyValue ==
  /\ \E o \in LegacyValueOptions : builder = legacyConstructor(o)
  /\ source = SrcPlain
  /\ payload = Undefined
  /\ op = NewOp
  /\ result = NoSend
  /\ exc = NoError
  /\ explicit = NoOpt
  /\ nSignals = 0
  /\ call = NoCall
  /\ ref = NoRef

\* ResponseUtils.determineContentType(body) is called, once in a behavior.
Determine(body) ==
  /\ call = NoCall
  /\ result = NoSend
  /\ call' = [ fn |-> "determineContentType", arg |-> body,
               threw |-> Threw(determineContentType(body)),
               out |-> determineContentType(body) ]
  /\ UNCHANGED <<builder, payload, source, op, result, exc, explicit, nSignals, ref>>

\* handler.send(body) for a body that is no stream, once in a behavior.
LegacySendValue(body) ==
  /\ call = NoCall
  /\ result = NoSend
  /\ builder' = legacySendValue(builder, determineContentType(body)).handler
  /\ result' = legacySendValue(builder, determineContentType(body)).result
  /\ payload' = body
  /\ UNCHANGED <<source, op, exc, explicit, nSignals, call, ref>>

NextLegacyValue ==
  \/ \E body \in LegacyBodies : Determine(body)
  \/ \E body \in LegacyBodies : LegacySendValue(body)

LegacyValueSpec == InitLegacyValue /\ [][NextLegacyValue]_vars

Determined == call.fn = "determineContentType"

\* C36: determineContentType of src/main.js returns a {body, type} pair for
\* every input, never null and never an exception, so that send does not
\* fail on a payload that is no stream (with a supported protocol), the
\* strings 0, false, null and "" included.
C36_LegacyAlwaysPair ==
  /\ Determined =>
       /\ ~call.threw
       /\ call.out # Null
       /\ DOMAIN call.out = {"body", "type"}
  /\ (result.state # "none" /\ builder.protocol \in PROTOCOLS)
       => result.state = "returned"

\* The inputs for which it fails, and no others: a string whose trimmed text
\* is JSON for a falsy value gives null, an invalid Date throws; send throws
\* for these, and in the http shape also for what JSON.stringify rejects.
C36_LegacyFailsOnFalsyJson ==
  /\ Determined =>
       /\ call.out = Null
            <=> /\ call.arg.k = "string"
                /\ JsonParse(Trim(call.arg.v)).ok
                /\ ~ToBoolean(JsonParse(Trim(call.arg.v)).val)
       /\ call.threw <=> call.arg = InvalidDate
  /\ (result.state = "threw" /\ builder.protocol \in PROTOCOLS) =>
       \/ determineContentType(payload) = Null
       \/ payload = InvalidDate
       \/ builder.protocol = "http" /\ payload \in {Arr(<<Self>>), Arr(<<BigInt(1)>>)}

\* ------------------------------------------------- the bytes accumulated

RECURSIVE SumOfLengths(_)
\* The lengths of the chunks added up.
SumOfLengths(chunks) ==
  IF chunks = <<>> THEN 0 ELSE Len(Head(chunks).v) + SumOfLengths(Tail(chunks))

\* C37: while a consume operation is unsettled the lengths of the chunks
\* accumulated add up to the running byte total, which is at most
\* maxStreamSize; the chunk that crosses the limit is never appended; and
\* every stream result the operation resolves with has a size of at most
\* maxStreamSize, the length of its body.
C37_AccumulatedWithinLimit ==
  /\ (op.phase = "active" /\ ~op.isSettled) =>
       /\ SumOfLengths(op.chunks) = op.totalBytes
       /\ op.totalBytes <= builder.maxStreamSize
  /\ ref.terminal = "size" =>
       /\ BufferConcat(op.chunks).v = ref.bytes
       /\ SumOfLengths(op.chunks) <= builder.maxStreamSize
       /\ op.totalBytes > builder.maxStreamSize
  /\ op.promise.state = "fulfilled" =>
       /\ op.promise.value.size = Num(Len(op.promise.value.body.v))
       /\ op.promise.value.size.v <= builder.maxStreamSize

\* A stream that ended with exactly maxStreamSize bytes, in two chunks.
C37_Witness ==
  /\ op.promise.state = "fulfilled"
  /\ Len(op.chunks) = 2
  /\ op.promise.value.size = Num(builder.maxStreamSize)

\* A chunk crossed the limit after another had been kept.
C37_WitnessCrossed ==
  /\ ref.terminal = "size"
  /\ Len(op.chunks) = 1
  /\ op.totalBytes > builder.maxStreamSize

\* ------------------------------------------------- header(name, value)

MaxHeaderCalls == 2

\* The text of the strings used as header names and values below.
TextOf(points) ==
  CASE points = <<88, 45, 65, 112, 105>> -> "X-Api"
    [] points = <<69, 84, 97, 103>> -> "ETag"
    [] points = <<50>> -> "2"
    [] points = <<53>> -> "5"
    [] points = <<48>> -> "0"
    [] points = <<110, 117, 108, 108>> -> "null"
    [] points = <<102, 97, 108, 115, 101>> -> "false"
    [] points = <<>> -> ""

\* A variant that stores a value only if it is truthy.
headerCall_SkipsFalsy(b, name, value) ==
  IF name.k = "string" /\ value.k # "undefined" /\ ToBoolean(value)
    THEN header(b, TextOf(name.v), TextOf(String(value).v))
    ELSE b

\* builder.header(name, value) for arguments of any kind:
\* typeof name === 'string' && value !== undefined
headerCall(b, name, value) ==
  IF name.k = "string" /\ value.k # "undefined"
    THEN header(b, TextOf(name.v), TextOf(String(value).v))
    ELSE b

\* A variant that keeps the object it is given:  options.headers || {}
headersObject_Given(options) == "given"

\* Which object the constructor makes the builder's headers: a copy of the
\* one in the options,  { ...options.headers } , never that object itself.
headersObject(options) == "copy"

\* Names: two strings, and values that are no strings.
HeaderNames == {Str(<<88, 45, 65, 112, 105>>), Str(<<69, 84, 97, 103>>), Num(5), Undefined}

\* Values: strings (one empty), numbers, null, false and undefined.
HeaderValues == {Str(<<50>>), Str(<<>>), Num(5), Num(0), Null, Bool(FALSE), Undefined}

FrameOptions ==
  { Options(p, h, NoOpt, m, "none", "") :
      p \in {NoProtocol, "ipc"}, h \in {NoHeaders, "X-Api" :> "1"}, m \in {NoOpt, Opt(2)} }

\* A builder made with headers the caller keeps hold of: call.given is what
\* the caller's object holds, call.object which object the builder writes to.
InitFrame ==
  /\ \E o \in FrameOptions :
       /\ builder = Construct(o).obj
       /\ call = [ fn |-> "ResponseBuilder", threw |-> FALSE, name |-> Undefined,
                   value |-> Undefined, given |-> o.headers,
                   object |-> headersObject(o), returned |-> "" ]
  /\ source = SrcPlain
  /\ payload = Undefined
  /\ op = NewOp
  /\ result = NoSend
  /\ exc = NoError
  /\ explicit = NoOpt
  /\ nSignals = 0
  /\ ref = NoRef

\* The caller calls header(name, value); a write to the builder's headers
\* is a write to the caller's object if the two are one object.
HeaderCall(name, value) ==
  /\ nSignals < MaxHeaderCalls
  /\ nSignals' = nSignals + 1
  /\ builder' = headerCall(builder, name, value)
  /\ call' = [ call EXCEPT !.fn = "header", !.name = name, !.value = value,
                           !.returned = "this",
                           !.given = IF call.object = "given"
                                       THEN headerCall(builder, name, value).headers
                                       ELSE @ ]
  /\ UNCHANGED <<payload, source, op, result, exc, explicit, ref>>

NextFrame == \E name \in HeaderNames, value \in HeaderValues : HeaderCall(name, value)

FrameSpec == InitFrame /\ [][NextFrame]_vars

\* C38: header(name, value) returns the builder; for a string name and a
\* value other than undefined it sets the entry name of the builder's
\* headers to String(value) and leaves every other entry as it was,
\* otherwise it changes nothing; statusCode, protocol, the limits and the
\* other fields stay as they were, and the headers object given to the
\* constructor is not changed.
C38_HeaderFrame ==
  [][ /\ call'.returned = "this"
      /\ call'.given = call.given
      /\ \A f \in (DOMAIN builder) \ {"headers"} : builder'[f] = builder[f]
      /\ IF call'.name.k = "string" /\ call'.value.k # "undefined"
           THEN /\ DOMAIN builder'.headers
                     = DOMAIN builder.headers \cup {TextOf(call'.name.v)}
                /\ builder'.headers[TextOf(call'.name.v)]
                     = TextOf(String(call'.value).v)
                /\ \A n \in DOMAIN builder.headers :
                     n # TextOf(call'.name.v) => builder'.headers[n] = builder.headers[n]
           ELSE builder'.headers = builder.headers
    ]_vars

\* header('X-Api', 0) replaced the configured entry on the builder with "0",
\* and the object given to the constructor still holds "1".
C38_Witness ==
  /\ call.fn = "header"
  /\ call.name = Str(<<88, 45, 65, 112, 105>>)
  /\ call.value = Num(0)
  /\ "X-Api" \in DOMAIN call.given
  /\ call.given["X-Api"] = "1"
  /\ builder.headers["X-Api"] = "0"

\* ------------------------------------------- a hook that throws or replaces

\* The statusCode the builder had when send was called: the last valid code
\* given to status, 200 if none was.
StatusBeforeError == IF explicit.has THEN explicit.val ELSE 200

\* C39: when the errorHandler throws while it handles a source error, the
\* consume operation rejects exactly once, with what the errorHandler threw,
\* the timer cleared and the source released, and the builder's statusCode
\* is what it was before the error; when the errorHandler returns a
\* replacement, the operation rejects with it and the statusCode is likewise
\* unchanged.
C39_HookThrowsOrReplaces ==
  (ref.terminal = "error" /\ builder.customErrorHandler \in {"throws", "returnsReplacement"})
    => /\ op.promise.state = "rejected"
       /\ op.promise.error = IF builder.customErrorHandler = "throws"
                               THEN E_HOOK_THROWN ELSE E_CUSTOM
       /\ op.settleCalls = 1
       /\ op.hookCalls = 1
       /\ op.timer = "cleared"
       /\ op.destroyCalls = 1
       /\ builder.statusCode = StatusBeforeError

\* The hook threw on an ENOENT error after status(404), further signals
\* followed, and send rejected with what the hook threw.
C39_Witness ==
  /\ ref.terminal = "error"
  /\ ref.error = E_ENOENT
  /\ ref.late
  /\ builder.customErrorHandler = "throws"
  /\ explicit = Opt(404)
  /\ builder.statusCode = 404
  /\ result.state = "rejected"
  /\ result.error.id = E_HOOK_THROWN.id

\* The same with an error of no code and no status call: still 200.
C39_WitnessDefault ==
  /\ ref.terminal = "error"
  /\ ref.error = E_PLAIN
  /\ builder.customErrorHandler = "returnsReplacement"
  /\ explicit = NoOpt
  /\ builder.statusCode = 200
  /\ op.promise.error = E_CUSTOM

====
